---------------------------- MODULE Spec2Model ----------------------------
(***************************************************************************)
(* ScreenMachine: contact-sheet generation from video files.               *)
(*                                                                         *)
(* Three state machines over one set of variables:                         *)
(*   SpecSampler  one call of the frame sampler (video_processor.py):      *)
(*                extract_screenshots with its two strategies,             *)
(*                extract_screenshots_pyav and extract_screenshots_ffmpeg; *)
(*   SpecBatch    one batch run (main.py): process_videos on the batch     *)
(*                thread, process_single_video on the pool's workers and   *)
(*                stop_processing on the UI thread;                        *)
(*   SpecGrid     one call of create_grid (image_composer.py).             *)
(*                                                                         *)
(* Timestamps are Python floats in the program.  Here they are exact       *)
(* rationals in lowest terms, so rounding of the float arithmetic is not   *)
(* modelled; durations are whole seconds.                                  *)
(***************************************************************************)
EXTENDS Integers, Sequences, FiniteSets, TLC

\* ------------------------------------------------------------------ bounds

\* Largest number of screenshots of one sampler request.
MaxCount == 3

\* Durations of the sampled video range over -MaxDur..MaxDur seconds.
MaxDur == 2

\* ------------------------------------------------------------- arithmetic

Abs(x) == IF x < 0 THEN -x ELSE x

Max(a, b) == IF a >= b THEN a ELSE b

Min(a, b) == IF a <= b THEN a ELSE b

RECURSIVE Gcd(_, _)
Gcd(a, b) == IF b = 0 THEN a ELSE Gcd(b, a % b)

\* The rational n/d (d # 0) in lowest terms with a positive denominator: the
\* value of a Python float, without its rounding.
Rat(n, d) ==
    LET g == Gcd(Abs(n), Abs(d))
        s == IF d < 0 THEN -1 ELSE 1
    IN  [n |-> (s * n) \div g, d |-> (s * d) \div g]

RatMul(r, k) == Rat(r.n * k, r.d)

RatLess(a, b) == a.n * b.d < b.n * a.d

\* Python's int(x) of the quotient a/b, a >= 0 and b > 0: truncation.
IntDiv(a, b) == a \div b

\* ------------------------------------------------------- sampler: helpers

\* No resolution known (original_resolution=None).
NoRes == <<0, 0>>

\* A faulty variant of the timestamp generation: the interval is
\* duration / count, so the last timestamp is the very end of the video.
TimestampsOffByOne(num_screenshots, duration) ==
    IF num_screenshots = 1
    THEN << Rat(duration, 2) >>
    ELSE LET interval == Rat(duration, num_screenshots)
         IN  [i \in 1..num_screenshots |-> RatMul(interval, i)]

\* extract_screenshots_pyav, "Calculate target timestamps": the timestamps
\* of the in-process strategy, in generation order.
TimestampsPyav(num_screenshots, duration) ==
    IF num_screenshots = 1
    THEN << Rat(duration, 2) >>
    ELSE LET interval == Rat(duration, num_screenshots + 1)
         IN  [i \in 1..num_screenshots |-> RatMul(interval, i)]

\* extract_screenshots_ffmpeg, "Calculate target timestamps": interval * (i + 1)
\* for i in range(num_screenshots); i below is the 1-based index.
TimestampsFfmpeg(num_screenshots, duration) ==
    IF num_screenshots = 1
    THEN << Rat(duration, 2) >>
    ELSE LET interval == Rat(duration, num_screenshots + 1)
         IN  [i \in 1..num_screenshots |-> RatMul(interval, (i - 1) + 1)]

RECURSIVE InsertSorted(_, _)
InsertSorted(x, s) ==
    IF s = << >> THEN << x >>
    ELSE IF RatLess(x, Head(s)) THEN << x >> \o s
    ELSE << Head(s) >> \o InsertSorted(x, Tail(s))

\* sorted(timestamps): ascending, stable.
RECURSIVE Sorted(_)
Sorted(s) ==
    IF s = << >> THEN << >>
    ELSE InsertSorted(s[Len(s)], Sorted(SubSeq(s, 1, Len(s) - 1)))

\* No target box (max_width / max_height None).
NoBox == <<0, 0>>

\* Lines 435-443 and 632-641: the size a frame is brought to when the original
\* resolution res is known; box = <<max_width, max_height>>, both nonzero.
\* orig_aspect = orig_w / orig_h if orig_h > 0 else 1.0 is the rational aw/ah.
FitInline(res, box) ==
    LET aw == IF res[2] > 0 THEN res[1] ELSE 1
        ah == IF res[2] > 0 THEN res[2] ELSE 1
    IN  IF aw * box[2] > box[1] * ah
        THEN << box[1], IntDiv(box[1] * ah, aw) >>
        ELSE << IntDiv(box[2] * aw, ah), box[2] >>

\* resize_image: ratio = min(max_width / w, max_height / h); the image is
\* resized to (int(w * ratio), int(h * ratio)) only if ratio < 1.0.
ResizeImage(size, box) ==
    IF box[1] * size[2] <= box[2] * size[1]
    THEN \* ratio = max_width / w
         IF box[1] < size[1]
         THEN << box[1], IntDiv(size[2] * box[1], size[1]) >>
         ELSE size
    ELSE \* ratio = max_height / h
         IF box[2] < size[2]
         THEN << IntDiv(size[1] * box[2], size[2]), box[2] >>
         ELSE size

\* "Resize if needed" of both strategies (lines 433-448 and 630-648): the size
\* of the frame stored for a decoded image of the given size.
ResizedSize(size, full_resolution, box, res) ==
    IF ~full_resolution /\ box[1] # 0 /\ box[2] # 0
    THEN IF res # NoRes
         THEN FitInline(res, box)     \* resized unless already that size
         ELSE ResizeImage(size, box)
    ELSE size

\* Lines 531-546: the size ffmpeg's scale filter delivers, the source size
\* without a filter.
FfmpegDecodeSize(src, full_resolution, box, res) ==
    IF box[1] # 0 /\ box[2] # 0 /\ res # NoRes /\ ~full_resolution
    THEN FitInline(res, box)
    ELSE src

\* timestamp_to_screenshot = {screenshot[1]: screenshot[0] ...}: whether the
\* dictionary has the key, and its value (the last screenshot with that key).
HasShot(ts, shots) == \E j \in DOMAIN shots : shots[j].ts = ts

LastShot(ts, shots) ==
    LET j == CHOOSE j \in DOMAIN shots :
                 /\ shots[j].ts = ts
                 /\ \A k \in DOMAIN shots : shots[k].ts = ts => k <= j
    IN  shots[j].img

\* A faulty variant of the remapping: the screenshots in the order in which
\* they were decoded.
FinalInDecodeOrder(timestamps, shots) == shots

\* Lines 467-476: final_screenshots of the in-process strategy, the decoded
\* screenshots in the order of the generated timestamps.
RECURSIVE FinalScreenshotsPyav(_, _)
FinalScreenshotsPyav(timestamps, shots) ==
    IF timestamps = << >> THEN << >>
    ELSE (IF HasShot(Head(timestamps), shots)
          THEN << [img |-> LastShot(Head(timestamps), shots),
                   ts |-> Head(timestamps)] >>
          ELSE << >>)
         \o FinalScreenshotsPyav(Tail(timestamps), shots)

\* Lines 656-665: final_screenshots of the external-process strategy.
RECURSIVE FinalScreenshotsFfmpeg(_, _)
FinalScreenshotsFfmpeg(timestamps, shots) ==
    IF timestamps = << >> THEN << >>
    ELSE (IF HasShot(Head(timestamps), shots)
          THEN << [img |-> LastShot(Head(timestamps), shots),
                   ts |-> Head(timestamps)] >>
          ELSE << >>)
         \o FinalScreenshotsFfmpeg(Tail(timestamps), shots)

\* ------------------------------------------------------- sampler: state

VARIABLES
    req,            \* the arguments of the call and the video it is about
    spc,            \* where the call is
    origRes,        \* original_resolution, once extract_screenshots filled it
    calls,          \* the strategies entered so far, in order
    timestamps,     \* timestamps of the running strategy
    timestampsSorted,
    idx,            \* position of the strategy's loop in timestampsSorted
    screenshots,    \* screenshots of the running strategy, in decode order
    attempts,       \* every timestamp attempted: strategy, timestamp, success
    stratResult,    \* per strategy: how it ended and what it returned
    result,         \* what the call returned
    outcome,        \* how the call ended
    previewLog,     \* the preview callback's invocations, in order
    opens,          \* av.open calls that returned a container
    closes,         \* container.close calls
    decoder         \* the ffmpeg process of the last Popen of the external
                    \* process loop: none, running, exited

samplerVars == << req, spc, origRes, calls, timestamps, timestampsSorted, idx,
                  screenshots, attempts, stratResult, result, outcome,
                  previewLog, opens, closes, decoder >>

\* ---------------------------------------------------------- batch: state

\* Largest number of videos found in the input directory.
MaxVideos == 2

\* Largest worker count the user enters.
MaxWorkers == 2

VARIABLES
    bpc,            \* where the batch is: idle, started (thread running),
                    \* loop (as_completed), cancel, shutdown, done
    is_processing,  \* self.is_processing
    nVideos,        \* len(video_files); the videos are 1 .. nVideos, sorted
    files,          \* the output files that exist
    overwrite,      \* config.overwrite_existing
    uiFormat,       \* self.output_format_var
    toProcess,      \* videos_to_process
    max_workers,
    fut,            \* per video: none, pending, running, finished, cancelled
    result_,        \* per video: the dictionary process_single_video returned
    probed,         \* videos whose metadata was probed
    sampled,        \* videos for which extract_screenshots was called
    filterSaw,      \* per video: what os.path.exists said in the filter
    checkSaw,       \* per video: what os.path.exists said in the worker
    consumed,       \* videos whose future the as_completed loop has handled
    counters,       \* processed, skipped, errors, completed
    cancelIdx,      \* position of the loop "for f in future_to_video: f.cancel()"
    observed,       \* the loop saw is_processing False: when, and what ran
    cancelled,      \* the videos whose f.cancel() found the future pending
    stopAt,         \* the completions handled when stop_processing was
                    \* called during this run, -1 before
    summary,        \* the counts of the "Complete!" message, if it was shown
    progress,       \* skipped + completed of the last progress value the
                    \* loop passed to update_status, -1 before the first
    buttons         \* the state of stop_button, and of start_button and the
                    \* other controls: normal or disabled

batchVars == << bpc, is_processing, nVideos, files, overwrite, uiFormat,
                toProcess, max_workers, fut, result_, probed, sampled,
                filterSaw, checkSaw, consumed, counters, cancelIdx, observed,
                cancelled, stopAt, summary, progress, buttons >>

\* ------------------------------------------------ grid: state (create_grid)

\* Largest config.rows and config.columns of the composed grids.
MaxRows == 2

MaxCols == 2

\* How many samples more than rows * columns a call may be given.
MaxExtra == 1

VARIABLES
    gpc,            \* create_grid: idle, call, returned, raised
    images,         \* the list object the caller passed as images
    given,          \* what that list held when the call was made
    gconfig,        \* config: rows, columns, box
                    \* (max_screenshot_width, max_screenshot_height), show
    gmetadata,      \* metadata
    resize_after_compose,
    grid            \* the image returned

gridVars == << gpc, images, given, gconfig, gmetadata, resize_after_compose,
               grid >>

\* ---------------------------------------- probe: state (get_metadata_ffprobe)

VARIABLES
    ppc,            \* get_metadata_ffprobe: idle, popen, communicate, kill,
                    \* finally, returned, terminated (the application was)
    ffprobe,        \* what the ffprobe of this call does
    taskkill,       \* whether taskkill /F /T does its work within 2 seconds
    child,          \* the process of Popen: none, running, exited
    descendant,     \* a process the child started: none, running, exited
    killedFor,      \* why _kill_process was called: none, timeout, except
    probeResult     \* what get_metadata_ffprobe returned

probeVars == << ppc, ffprobe, taskkill, child, descendant, killedFor,
                probeResult >>

\* ------------------------------- the operating system the application runs on

VARIABLES
    platform,       \* sys.platform: win32 or posix
    app             \* the application's own process: alive, terminated

osVars == << platform, app >>

\* ----------------------------------- paths: state (calculate_output_path)

VARIABLES
    pthpc,          \* calculate_output_path: idle, call, returned, raised,
                    \* both (returned for the other video too),
                    \* other_raised
    pathReq,        \* the arguments, and the directories there were
    outDirs,        \* the directories under output_dir, output_dir being << >>
    outPath,        \* the path returned, under output_dir
    otherPath       \* the path returned for another video of the same batch

pathVars == << pthpc, pathReq, outDirs, outPath, otherPath >>

\* ------------------------------------------ config: state (ProcessingConfig)

VARIABLES
    cfgpc,          \* idle, call, done
    cfgReq,         \* who constructs the config, and from what
    cfgResult,      \* the ProcessingConfig constructed, or the ValueError
    cfgThread       \* processing_thread of start_processing: none, started

configVars == << cfgpc, cfgReq, cfgResult, cfgThread >>

\* ----------------------------------- cache: state (_file_size_cache)

\* Largest file size, in bytes, of a video.
MaxSize == 2

\* The threads that call get_video_metadata and extract_screenshots.
CacheWorkers == {"w1", "w2"}

\* The video paths they call them for.
CachePaths == {"p", "q"}

VARIABLES
    cache,          \* _file_size_cache: per path the size cached, 0 for a
                    \* path that is not a key
    disk,           \* per path what os.path.getsize returns now
    cw              \* per thread: where its call of get_video_metadata is
                    \* (idle, probe, check, getsize, store), video_path, and
                    \* file_size, 0 for None

cacheVars == << cache, disk, cw >>

vars == << samplerVars, batchVars, gridVars, probeVars, pathVars, configVars,
          osVars, cacheVars >>

\* What a step of the sampler, of the batch, of create_grid, of the probe, of
\* calculate_output_path and of the construction of the config leaves alone;
\* the sampler and the probe are the two that start and kill processes.
notSampler ==
    << batchVars, gridVars, probeVars, pathVars, configVars, cacheVars >>

notBatch ==
    << samplerVars, gridVars, probeVars, pathVars, configVars, osVars, cacheVars >>

notGrid ==
    << samplerVars, batchVars, probeVars, pathVars, configVars, osVars, cacheVars >>

notProbe ==
    << samplerVars, batchVars, gridVars, pathVars, configVars, cacheVars >>

notPath ==
    << samplerVars, batchVars, gridVars, probeVars, configVars, osVars, cacheVars >>

notConfig ==
    << samplerVars, batchVars, gridVars, probeVars, pathVars, osVars, cacheVars >>

notCache ==
    << samplerVars, batchVars, gridVars, probeVars, pathVars, configVars, osVars >>

CacheIdle ==
    /\ cache = [p \in CachePaths |-> 0]
    /\ disk = [p \in CachePaths |-> 1]
    /\ cw = [w \in CacheWorkers |-> [pc |-> "idle", path |-> "p", file_size |-> 0]]

NoConfig == [ok |-> FALSE, rows |-> 0, columns |-> 0, width |-> 0,
             height |-> 0, quality |-> 0]

ConfigIdle ==
    /\ cfgpc = "idle"
    /\ cfgReq = [entry |-> "ProcessingConfig", rows |-> 1, columns |-> 1,
                 width |-> 1, height |-> 1, quality |-> 1, nan |-> {}]
    /\ cfgResult = NoConfig
    /\ cfgThread = "none"

NoPath == [dir |-> << >>, file |-> << >>]

PathIdle ==
    /\ pthpc = "idle"
    /\ pathReq = [rel |-> << >>, name |-> << "a", "mp4" >>, format |-> "JPG",
                  follow |-> FALSE, suffix |-> "", drive |-> "same",
                  existing |-> {}, writable |-> TRUE,
                  other |-> [rel |-> << >>, name |-> << "clip" >>]]
    /\ outDirs = {}
    /\ outPath = NoPath
    /\ otherPath = NoPath

\* return None, and nothing returned yet.
NoProbeResult == [ok |-> FALSE, resolution |-> <<0, 0>>, duration |-> 0]

OsIdle ==
    /\ platform = "posix"
    /\ app = "alive"

\* The processes of the process group of the child, os.getpgid(process.pid)
\* at line 91: Popen (lines 143-145, 582-583) was given neither
\* start_new_session nor a process group, so the group is the one of the
\* application, and that of every other process the application started
\* the same way (sibling: the ffprobe or ffmpeg of another worker).
GroupOfChild == {"app", "child", "descendant", "sibling"}

\* The processes a call of _kill_process on a running child signals: on
\* win32 the tree of the child's pid (taskkill /T, line 86), elsewhere the
\* child's process group (os.killpg, line 91).
Signalled == IF platform = "win32" THEN {"child", "descendant"} ELSE GroupOfChild

\* _kill_process of a child that is running, lines 84-91: off Windows,
\* SIGTERM goes to every process of the child's group; the application
\* installs no handler for it.
KillsApplication == platform # "win32" /\ "app" \in GroupOfChild

ProbeIdle ==
    /\ ppc = "idle"
    /\ ffprobe = [does |-> "missing", resolution |-> <<0, 0>>, duration |-> 0,
                  forks |-> FALSE]
    /\ taskkill = TRUE
    /\ child = "none"
    /\ descendant = "none"
    /\ killedFor = "none"
    /\ probeResult = NoProbeResult

\* metadata=None.  A metadata dict is the set of its keys among those
\* create_grid reads, named by their labels ("title" is the key 'filename'),
\* and the values of file_size and duration.
NoMetadata == [present |-> FALSE, keys |-> {}, file_size |-> 0,
               duration |-> 0]

NoGrid == [cells |-> << >>, cell |-> <<0, 0>>, size |-> <<0, 0>>,
           labels |-> << >>, scale |-> [n |-> 1, d |-> 1],
           scaled |-> <<0, 0>>, resizes |-> 0]

GridIdle ==
    /\ gpc = "idle"
    /\ images = << >>
    /\ given = << >>
    /\ gconfig = [rows |-> 1, columns |-> 1, box |-> <<1, 1>>, show |-> {}]
    /\ gmetadata = NoMetadata
    /\ resize_after_compose = FALSE
    /\ grid = NoGrid

Entries == {"extract_screenshots", "extract_screenshots_pyav",
            "extract_screenshots_ffmpeg"}

\* Frame sizes of the sampled videos and the target box of the requests.
SourceSizes == { <<2, 2>>, <<8, 6>>, <<6, 8>> }

TargetBoxes == { NoBox, <<4, 3>> }

\* A negative duration is not rejected anywhere (only duration == 0 is): its
\* timestamps are generated in descending order, and decoded in ascending.
Durations == (0 - MaxDur) .. MaxDur

Requests ==
    [ entry : Entries,
      num : 0 .. MaxCount,
      duration : Durations,
      pyav : BOOLEAN,                  \* PYAV_AVAILABLE
      box : TargetBoxes,               \* (max_width, max_height)
      full : BOOLEAN,                  \* full_resolution
      res : {NoRes} \cup SourceSizes,  \* original_resolution as passed
      src : SourceSizes,               \* the size of the video's frames
      cb : {"none", "ok", "faulty"} ]  \* preview_callback

NotRun == [st |-> "notrun", frames |-> << >>]

\* The batch before start_processing: nothing found, nothing dispatched.
\* The buttons while no batch runs (lines 404-413, 879-882) and while one
\* does (lines 668-671).
ButtonsIdle == [stop |-> "disabled", start |-> "normal"]

ButtonsProcessing == [stop |-> "normal", start |-> "disabled"]

BatchIdle ==
    /\ bpc = "idle"
    /\ is_processing = FALSE
    /\ nVideos = 0
    /\ files = {}
    /\ overwrite = FALSE
    /\ uiFormat = "JPG"
    /\ toProcess = << >>
    /\ max_workers = 0
    /\ fut = << >>
    /\ result_ = << >>
    /\ probed = {}
    /\ sampled = {}
    /\ filterSaw = << >>
    /\ checkSaw = << >>
    /\ consumed = {}
    /\ counters = [processed |-> 0, skipped |-> 0, errors |-> 0, completed |-> 0]
    /\ cancelIdx = 0
    /\ observed = [seen |-> FALSE, started |-> {}, completed |-> 0]
    /\ cancelled = {}
    /\ stopAt = -1
    /\ summary = [shown |-> FALSE, processed |-> 0, skipped |-> 0, errors |-> 0]
    /\ progress = -1
    /\ buttons = ButtonsIdle

SamplerInit ==
    /\ CacheIdle
    /\ BatchIdle
    /\ GridIdle
    /\ ProbeIdle
    /\ platform \in {"win32", "posix"}
    /\ app = "alive"
    /\ PathIdle
    /\ ConfigIdle
    /\ req \in { r \in Requests : r.res \in {NoRes, r.src} }
    /\ spc = (CASE req.entry = "extract_screenshots" -> "es_start"
                [] req.entry = "extract_screenshots_pyav" -> "py_start"
                [] OTHER -> "ff_start")
    /\ origRes = req.res
    /\ calls = << >>
    /\ timestamps = << >>
    /\ timestampsSorted = << >>
    /\ idx = 0
    /\ screenshots = << >>
    /\ attempts = << >>
    /\ stratResult = [pyav |-> NotRun, ffmpeg |-> NotRun]
    /\ result = << >>
    /\ outcome = "running"
    /\ previewLog = << >>
    /\ opens = 0
    /\ closes = 0
    /\ decoder = "none"

\* Line 729, "if result and len(result) > 0: return result".
PyavResultAcceptedAlways(frames) == TRUE

PyavResultAccepted(frames) == Len(frames) > 0

\* Line 722: whether extract_screenshots enters the in-process strategy.
TriesPyav(available) == available

\* What the caller of a strategy does when the strategy is over: a direct call
\* ends with the strategy; extract_screenshots (lines 722-751) returns a
\* non-empty in-process result, falls back to the external process on an
\* empty one or an exception, returns a non-empty external-process result
\* and raises ValueError on an empty one; an exception of the external
\* process strategy is not caught.
AfterStrategy(strategy, st, frames) ==
    IF req.entry # "extract_screenshots"
    THEN /\ spc' = "done"
         /\ outcome' = st
         /\ result' = frames
    ELSE IF strategy = "pyav"
    THEN IF st = "returned" /\ PyavResultAccepted(frames)
         THEN /\ spc' = "done"
              /\ outcome' = "returned"
              /\ result' = frames
         ELSE /\ spc' = "ff_start"
              /\ UNCHANGED << outcome, result >>
    ELSE IF st = "raised"
    THEN /\ spc' = "done"
         /\ outcome' = "raised"
         /\ result' = << >>
    ELSE IF Len(frames) > 0
    THEN /\ spc' = "done"
         /\ outcome' = "returned"
         /\ result' = frames
    ELSE /\ spc' = "done"
         /\ outcome' = "ValueError"
         /\ result' = << >>

\* extract_screenshots, lines 703-722: the metadata is probed when the
\* original resolution was not passed (duration and fps are passed here); a
\* failed probe raises ValueError before any strategy; then the in-process
\* strategy is entered if PyAV is available, the external process otherwise.
\* A probe that hangs is killed by _kill_process (lines 202-206), and the
\* application with it where the kill reaches the application's group.
ExtractScreenshotsBegin ==
    /\ UNCHANGED notSampler
    /\ spc = "es_start"
    /\ \E probe \in {"ok", "fails", "hangs"} :
         IF req.res = NoRes /\ probe = "hangs" /\ KillsApplication
         THEN /\ spc' = "terminated"
              /\ app' = "terminated"
              /\ UNCHANGED << origRes, outcome >>
         ELSE IF req.res = NoRes /\ probe # "ok"
         THEN /\ spc' = "done"
              /\ outcome' = "ValueError"
              /\ UNCHANGED << origRes, app >>
         ELSE /\ origRes' = (IF req.res = NoRes THEN req.src ELSE req.res)
              /\ spc' = (IF TriesPyav(req.pyav) THEN "py_start" ELSE "ff_start")
              /\ UNCHANGED << outcome, app >>
    /\ UNCHANGED << platform, decoder >>
    /\ UNCHANGED << req, calls, timestamps, timestampsSorted, idx, screenshots,
                    attempts, stratResult, result, previewLog, opens, closes >>

\* How one timestamp of the in-process loop can end (lines 388-458): the seek
\* raises; the decode yields no frame (nothing decoded, decode error, decode
\* deadline); converting or resizing the frame raises; a frame is stored.
PyavOutcomes == {"seek_failed", "no_frame", "exception", "ok"}

\* How one timestamp of the external-process loop can end (lines 555-654):
\* Popen raises; communicate times out; ffmpeg exits non-zero; the bytes on
\* stdout are no image; a frame is stored.
FfmpegOutcomes == {"spawn_failed", "timeout", "nonzero_exit", "bad_image", "ok"}

\* Both loops go on with the next timestamp whatever the outcome r of
\* timestamp i of n was ("continue" at lines 398, 424, 458, 593, 598, 603,
\* 618, 654), where the application is still there to go on.
NextTimestamp(i, r, n) == i + 1

\* A faulty variant of the invocations: the callback is invoked for the first
\* final screenshot only.
PreviewsOfFirstOnly(strategy, final, k) ==
    [i \in 1 .. Min(k, 1) |->
        [s |-> strategy, ts |-> final[i].ts, img |-> final[i].img]]

\* The invocations of the preview callback for the first k final screenshots.
Previews(strategy, final, k) ==
    [i \in 1..k |-> [s |-> strategy, ts |-> final[i].ts, img |-> final[i].img]]

\* The end of a strategy: the final list is built in timestamp order and the
\* callback, if any, is invoked per element; a faulty callback may raise at
\* any invocation, which ends the strategy with that exception.
FinishStrategy(strategy, final) ==
    \E k \in 0 .. Len(final) :
        /\ (k > 0) => (req.cb = "faulty")
        /\ LET st == IF k > 0 THEN "raised" ELSE "returned"
               frames == IF k > 0 THEN << >> ELSE final
               shown == IF req.cb = "none" THEN 0
                        ELSE IF k > 0 THEN k ELSE Len(final)
           IN  /\ previewLog' = previewLog \o Previews(strategy, final, shown)
               /\ stratResult' =
                      [stratResult EXCEPT ![strategy] = [st |-> st, frames |-> frames]]
               /\ AfterStrategy(strategy, st, frames)

\* A faulty variant of the finally block: the container is never closed.
ContainerLeftOpen(container, n) == n

\* The finally block of extract_screenshots_pyav, lines 460-466, on the
\* count n of close calls: "if container: container.close()", whatever
\* close raises being swallowed.
ContainerClosed(container, n) == IF container THEN n + 1 ELSE n

\* extract_screenshots_pyav up to its loop (lines 312-386).
PyavBegin ==
    /\ UNCHANGED << notSampler, osVars, decoder >>
    /\ spc = "py_start"
    /\ calls' = Append(calls, "pyav")
    /\ IF ~req.pyav
       THEN \* ImportError
            /\ stratResult' = [stratResult EXCEPT !.pyav = [st |-> "raised", frames |-> << >>]]
            /\ AfterStrategy("pyav", "raised", << >>)
            /\ UNCHANGED << timestamps, timestampsSorted, idx, screenshots, opens, closes >>
       ELSE IF req.duration = 0 \/ req.num = 0
       THEN /\ stratResult' = [stratResult EXCEPT !.pyav = [st |-> "returned", frames |-> << >>]]
            /\ AfterStrategy("pyav", "returned", << >>)
            /\ UNCHANGED << timestamps, timestampsSorted, idx, screenshots, opens, closes >>
       ELSE /\ timestamps' = TimestampsPyav(req.num, req.duration)
            /\ timestampsSorted' = Sorted(timestamps')
            /\ screenshots' = << >>
            /\ \E open \in {"open_failed", "no_video_stream", "ok"} :
                 CASE open = "open_failed" ->
                        /\ stratResult' = [stratResult EXCEPT
                               !.pyav = [st |-> "returned", frames |-> << >>]]
                        /\ AfterStrategy("pyav", "returned", << >>)
                        /\ closes' = ContainerClosed(FALSE, closes)
                        /\ UNCHANGED << idx, opens >>
                   [] open = "no_video_stream" ->
                        /\ opens' = opens + 1
                        /\ closes' = ContainerClosed(TRUE, closes)
                        /\ stratResult' = [stratResult EXCEPT
                               !.pyav = [st |-> "returned", frames |-> << >>]]
                        /\ AfterStrategy("pyav", "returned", << >>)
                        /\ UNCHANGED idx
                   [] OTHER ->
                        /\ opens' = opens + 1
                        /\ idx' = 1
                        /\ spc' = "py_loop"
                        /\ UNCHANGED << closes, stratResult, outcome, result >>
    /\ UNCHANGED << req, origRes, attempts, previewLog >>

\* One timestamp of the in-process loop (lines 388-458).
PyavFrame ==
    /\ UNCHANGED << notSampler, osVars, decoder >>
    /\ spc = "py_loop"
    /\ idx <= Len(timestampsSorted)
    /\ \E r \in PyavOutcomes :
         LET t == timestampsSorted[idx]
             img == [size |-> ResizedSize(req.src, req.full, req.box, origRes),
                     at |-> t, by |-> "pyav"]
         IN  /\ attempts' = Append(attempts, [s |-> "pyav", ts |-> t, ok |-> (r = "ok")])
             /\ screenshots' = IF r = "ok"
                               THEN Append(screenshots, [img |-> img, ts |-> t])
                               ELSE screenshots
             /\ idx' = NextTimestamp(idx, r, Len(timestampsSorted))
    /\ UNCHANGED << req, spc, origRes, calls, timestamps, timestampsSorted,
                    stratResult, result, outcome, previewLog, opens, closes >>

\* The end of extract_screenshots_pyav (lines 459-486): the container is
\* closed, the screenshots are put in timestamp order, the callback runs.
PyavFinish ==
    /\ UNCHANGED << notSampler, osVars, decoder >>
    /\ spc = "py_loop"
    /\ idx > Len(timestampsSorted)
    /\ closes' = ContainerClosed(TRUE, closes)
    /\ FinishStrategy("pyav", FinalScreenshotsPyav(timestamps, screenshots))
    /\ UNCHANGED << req, origRes, calls, timestamps, timestampsSorted, idx,
                    screenshots, attempts, opens >>

\* extract_screenshots_ffmpeg up to its loop (lines 500-552).
FfmpegBegin ==
    /\ UNCHANGED << notSampler, osVars, decoder >>
    /\ spc = "ff_start"
    /\ calls' = Append(calls, "ffmpeg")
    /\ IF req.duration = 0 \/ req.num = 0
       THEN /\ stratResult' = [stratResult EXCEPT !.ffmpeg = [st |-> "returned", frames |-> << >>]]
            /\ AfterStrategy("ffmpeg", "returned", << >>)
            /\ UNCHANGED << timestamps, timestampsSorted, idx, screenshots >>
       ELSE /\ timestamps' = TimestampsFfmpeg(req.num, req.duration)
            /\ timestampsSorted' = Sorted(timestamps')
            /\ screenshots' = << >>
            /\ idx' = 1
            /\ spc' = "ff_loop"
            /\ UNCHANGED << stratResult, outcome, result >>
    /\ UNCHANGED << req, origRes, attempts, previewLog, opens, closes >>

\* The ffmpeg process after a timestamp that ended with r and left the
\* application alive (lines 582-611): a Popen that raised started nothing;
\* communicate that returned has reaped the process; after a timeout
\* _kill_process ends it with taskkill and process.terminate.
DecoderAfter(r, before) == IF r = "spawn_failed" THEN before ELSE "exited"

\* One timestamp of the external-process loop (lines 555-654).  A timeout
\* calls _kill_process on the running ffmpeg (lines 594-598): where that
\* signals the application's own group, the application ends there, and
\* ffmpeg, which got the same SIGTERM and no SIGKILL after it, has exited
\* or not.
FfmpegFrame ==
    /\ UNCHANGED notSampler
    /\ spc = "ff_loop"
    /\ idx <= Len(timestampsSorted)
    /\ \E r \in FfmpegOutcomes :
         LET t == timestampsSorted[idx]
             decoded == FfmpegDecodeSize(req.src, req.full, req.box, origRes)
             img == [size |-> ResizedSize(decoded, req.full, req.box, origRes),
                     at |-> t, by |-> "ffmpeg"]
         IN  /\ attempts' = Append(attempts, [s |-> "ffmpeg", ts |-> t, ok |-> (r = "ok")])
             /\ screenshots' = IF r = "ok"
                               THEN Append(screenshots, [img |-> img, ts |-> t])
                               ELSE screenshots
             /\ IF r = "timeout" /\ KillsApplication
                THEN /\ app' = "terminated"
                     /\ spc' = "terminated"
                     /\ \E d \in {"running", "exited"} : decoder' = d
                     /\ UNCHANGED idx
                ELSE /\ idx' = NextTimestamp(idx, r, Len(timestampsSorted))
                     /\ decoder' = DecoderAfter(r, decoder)
                     /\ UNCHANGED << app, spc >>
    /\ UNCHANGED << platform, req, origRes, calls, timestamps,
                    timestampsSorted, stratResult, result, outcome,
                    previewLog, opens, closes >>

\* The end of extract_screenshots_ffmpeg (lines 656-671).
FfmpegFinish ==
    /\ UNCHANGED << notSampler, osVars, decoder >>
    /\ spc = "ff_loop"
    /\ idx > Len(timestampsSorted)
    /\ FinishStrategy("ffmpeg", FinalScreenshotsFfmpeg(timestamps, screenshots))
    /\ UNCHANGED << req, origRes, calls, timestamps, timestampsSorted, idx,
                    screenshots, attempts, opens, closes >>

SamplerNext ==
    \/ ExtractScreenshotsBegin
    \/ PyavBegin
    \/ PyavFrame
    \/ PyavFinish
    \/ FfmpegBegin
    \/ FfmpegFrame
    \/ FfmpegFinish

SpecSampler == SamplerInit /\ [][SamplerNext]_vars

\* ------------------------------------------------------ sampler: claims

Strategies == {"pyav", "ffmpeg"}

Range(f) == { f[i] : i \in DOMAIN f }

AttemptsOf(s) == SelectSeq(attempts, LAMBDA a : a.s = s)

GeneratedBy(s) ==
    IF s = "pyav" THEN TimestampsPyav(req.num, req.duration)
    ELSE TimestampsFfmpeg(req.num, req.duration)

PositionIn(t, ts) == CHOOSE i \in DOMAIN ts : ts[i] = t

ViaExtractScreenshots == req.entry = "extract_screenshots"

ReturnedEmpty(r) == r.st = "returned" /\ Len(r.frames) = 0

\* C1: once the metadata is known, extract_screenshots enters the in-process
\* strategy first, and exactly when PyAV is available; the external-process
\* strategy is entered exactly when the in-process one is unavailable, raised
\* or returned zero frames, and never before it; a non-empty in-process
\* result is the call's result; and when the external process returns zero
\* frames too, the call ends with ValueError and returns nothing.
C1_FallbackPolicy ==
    ViaExtractScreenshots =>
        LET py == stratResult.pyav
            ff == stratResult.ffmpeg
            needed == \/ ~req.pyav
                      \/ py.st = "raised"
                      \/ ReturnedEmpty(py)
        IN  /\ calls \in { << >>, << "pyav" >>, << "ffmpeg" >>, << "pyav", "ffmpeg" >> }
            /\ (calls # << >>) => ((calls[1] = "pyav") <=> req.pyav)
            /\ ("ffmpeg" \in Range(calls)) => needed
            /\ (spc = "done" /\ calls # << >>) =>
                   /\ needed => "ffmpeg" \in Range(calls)
                   /\ ~needed => (outcome = "returned" /\ result = py.frames)
                   /\ ReturnedEmpty(ff) => (outcome = "ValueError" /\ result = << >>)
                   /\ (outcome = "returned") => Len(result) > 0

\* C1 witness: both strategies went through every timestamp of the request,
\* both returned zero frames, and the call ended with ValueError.
C1_BothStrategiesEmpty ==
    /\ ViaExtractScreenshots
    /\ spc = "done"
    /\ calls = << "pyav", "ffmpeg" >>
    /\ req.num >= 2
    /\ Len(AttemptsOf("pyav")) = req.num
    /\ Len(AttemptsOf("ffmpeg")) = req.num
    /\ ReturnedEmpty(stratResult.pyav)
    /\ ReturnedEmpty(stratResult.ffmpeg)
    /\ outcome = "ValueError"

\* C2: what a strategy returns is in the order of its generated timestamp
\* list, each element carrying the timestamp its image was decoded at, also
\* when the frames were decoded in another order; and when every timestamp of
\* the request was decoded, the i-th element is the frame of the i-th
\* generated timestamp and the length is the requested count.
C2_RequestOrder ==
    \A s \in Strategies :
        LET frames == stratResult[s].frames
            ts == GeneratedBy(s)
            done == SelectSeq(AttemptsOf(s), LAMBDA a : a.ok)
        IN  (stratResult[s].st = "returned") =>
                /\ \A i \in DOMAIN frames :
                       /\ frames[i].ts \in Range(ts)
                       /\ frames[i].img.at = frames[i].ts
                       /\ frames[i].img.by = s
                /\ \A i, j \in DOMAIN frames :
                       (i < j) => PositionIn(frames[i].ts, ts) < PositionIn(frames[j].ts, ts)
                /\ (Len(done) = req.num) =>
                       /\ Len(frames) = req.num
                       /\ \A i \in DOMAIN frames : frames[i].ts = ts[i]

\* C2 witness: a call returned every requested frame, of which the first
\* decoded is not the first returned.
C2_DecodedOutOfOrder ==
    /\ spc = "done"
    /\ outcome = "returned"
    /\ req.num >= 2
    /\ Len(result) = req.num
    /\ attempts[1].ok
    /\ attempts[1].ts # result[1].ts

\* C3: for count >= 2 and a duration D > 0 the timestamps are strictly
\* increasing, strictly between 0 and D, the i-th (from 1) being
\* D * i / (count + 1); for count = 1 the one timestamp is D / 2; the two
\* strategies generate the same list; and the list a strategy works on is
\* that list.
C3_Timestamps ==
    LET n == req.num
        D == req.duration
        py == TimestampsPyav(n, D)
        ff == TimestampsFfmpeg(n, D)
    IN  (n >= 1 /\ D > 0) =>
            /\ py = ff
            /\ Len(py) = n
            /\ (n = 1) => py = << Rat(D, 2) >>
            /\ (n >= 2) =>
                   \A i \in 1 .. n :
                       /\ py[i] = Rat(D * i, n + 1)
                       /\ RatLess(Rat(0, 1), py[i])
                       /\ RatLess(py[i], Rat(D, 1))
                       /\ (i < n) => RatLess(py[i], py[i + 1])
            /\ (spc = "py_loop") => timestamps = py
            /\ (spc = "ff_loop") => timestamps = ff

\* C3 witness: the in-process strategy works on three timestamps of a
\* 2-second video: 1/2, 1 and 3/2 seconds.
C3_ThreeOfTwoSeconds ==
    /\ spc = "py_loop"
    /\ req.num = 3
    /\ req.duration = 2
    /\ timestamps = << Rat(1, 2), Rat(1, 1), Rat(3, 2) >>

\* C4: a timestamp that fails is skipped and nothing else: a strategy's loop
\* attempts the timestamps one after the other without leaving any out, a
\* strategy that entered its loop and ended has attempted every timestamp of
\* the request, and what it returns are the frames of exactly the timestamps
\* that succeeded.
C4_FailureSkipsOneTimestamp ==
    \A s \in Strategies :
        LET tried == AttemptsOf(s)
            ok == { tried[i].ts : i \in { k \in DOMAIN tried : tried[k].ok } }
            inLoop == spc = (IF s = "pyav" THEN "py_loop" ELSE "ff_loop")
        IN  /\ inLoop =>
                   /\ Len(tried) = idx - 1
                   /\ \A i \in DOMAIN tried : tried[i].ts = timestampsSorted[i]
            /\ (~inLoop /\ tried # << >>) =>
                   /\ Len(tried) = req.num
                   /\ { tried[i].ts : i \in DOMAIN tried } = Range(GeneratedBy(s))
            /\ (stratResult[s].st = "returned") =>
                   { f.ts : f \in Range(stratResult[s].frames) } = ok

\* C10: when a target box is given and full resolution is not requested,
\* every frame a strategy returns fits in the box, is no larger than the
\* source frame, and has the source's aspect ratio (to within the pixel lost
\* by truncation).
C10_FitsBoxNeverUpscaled ==
    (req.box # NoBox /\ ~req.full) =>
        \A s \in Strategies :
            \A f \in Range(stratResult[s].frames) :
                LET w == f.img.size[1]
                    h == f.img.size[2]
                IN  /\ w <= req.box[1]
                    /\ h <= req.box[2]
                    /\ w <= req.src[1]
                    /\ h <= req.src[2]
                    /\ Abs(w * req.src[2] - h * req.src[1]) < Max(req.src[1], req.src[2])

\* ---------------------------------------------------------- batch: steps

Videos == 1 .. nVideos

Running == { v \in Videos : fut[v] = "running" }

\* utils.py, line 25: the extension of the output file.
Ext(fmt) == IF fmt = "PNG" THEN "png" ELSE "jpg"

\* calculate_output_path: the output file of video v for a format; the
\* videos of a batch have output names of their own here.
OutputPath(v, fmt) == << v, Ext(fmt) >>

\* getattr(config, 'output_format', 'JPG') at line 782: get_config returns
\* the ProcessingConfig at line 570, before the assignment of line 585, so
\* the config never has the attribute.
ConfigOutputFormat == "JPG"

\* save_grid_image, lines 358-367: the file written for output_path.
SavedPath(path, fmt) == << path[1], Ext(fmt) >>

\* A faulty variant of the skip test: an existing file is never a reason to
\* skip.
NeverSkip(exists, overwrite_existing) == FALSE

\* Lines 702 and 788: "if exists_check and not config.overwrite_existing".
ShouldSkip(exists, overwrite_existing) == exists /\ ~overwrite_existing

\* What the user may have typed as the number of workers: no number, or a
\* number from 0 to MaxWorkers, or one above the limit of 16.
WorkerSettings ==
    { [valid |-> FALSE, n |-> 0] }
        \cup { [valid |-> TRUE, n |-> k] : k \in (0 .. MaxWorkers) \cup {17} }

\* Lines 798-802.
WorkerCount(setting, pending) ==
    IF setting.valid
    THEN Max(1, Min(Min(setting.n, pending), 16))
    ELSE 2

\* sorted(...) of find_video_files, kept by the filter loop of lines 778-791:
\* the videos of S in ascending order.
RECURSIVE Ascending(_)
Ascending(S) ==
    IF S = {} THEN << >>
    ELSE LET m == CHOOSE x \in S : \A y \in S : x <= y
         IN  << m >> \o Ascending(S \ {m})

\* A faulty variant of the tally: once an error was counted, nothing more is.
TallyUntilError(c, st) ==
    IF c.errors > 0 THEN c
    ELSE [ processed |-> c.processed + (IF st = "success" THEN 1 ELSE 0),
           skipped |-> c.skipped + (IF st = "skipped" THEN 1 ELSE 0),
           errors |-> c.errors + (IF st = "error" THEN 1 ELSE 0),
           completed |-> c.completed + 1 ]

\* Lines 837-848: the counters after a future with result status st.
Tally(c, st) ==
    [ processed |-> c.processed + (IF st = "success" THEN 1 ELSE 0),
      skipped |-> c.skipped + (IF st = "skipped" THEN 1 ELSE 0),
      errors |-> c.errors + (IF st = "error" THEN 1 ELSE 0),
      completed |-> c.completed + 1 ]

\* A faulty variant of the flag test: the loop never looks at the flag.
IgnoresStop(flag) == FALSE

\* Line 829: "if not self.is_processing".
SeesStop(flag) == ~flag

\* A faulty variant of Future.cancel: a pending future is left pending.
CancelNothing(state) == state

\* Future.cancel() at line 832: a pending future becomes cancelled, a
\* running or finished one is left as it is.
CancelFuture(state) == IF state = "pending" THEN "cancelled" ELSE state

\* The sampler at rest, while a batch is looked at.
SamplerIdle ==
    /\ req = [entry |-> "extract_screenshots", num |-> 0, duration |-> 0,
              pyav |-> FALSE, box |-> NoBox, full |-> FALSE, res |-> NoRes,
              src |-> NoRes, cb |-> "none"]
    /\ spc = "idle"
    /\ origRes = NoRes
    /\ calls = << >>
    /\ timestamps = << >>
    /\ timestampsSorted = << >>
    /\ idx = 0
    /\ screenshots = << >>
    /\ attempts = << >>
    /\ stratResult = [pyav |-> NotRun, ffmpeg |-> NotRun]
    /\ result = << >>
    /\ outcome = "running"
    /\ previewLog = << >>
    /\ opens = 0
    /\ closes = 0
    /\ decoder = "none"

BatchInit ==
    /\ CacheIdle
    /\ SamplerIdle
    /\ GridIdle
    /\ ProbeIdle
    /\ OsIdle
    /\ PathIdle
    /\ ConfigIdle
    /\ bpc = "idle"
    /\ is_processing = FALSE
    /\ nVideos \in 0 .. MaxVideos
    /\ files \in SUBSET { << v, e >> : v \in Videos, e \in {"jpg", "png"} }
    /\ overwrite \in BOOLEAN
    /\ uiFormat \in {"JPG", "PNG"}
    /\ toProcess = << >>
    /\ max_workers = 0
    /\ fut = [v \in Videos |-> "none"]
    /\ result_ = [v \in Videos |-> "none"]
    /\ probed = {}
    /\ sampled = {}
    /\ filterSaw = [v \in Videos |-> "unchecked"]
    /\ checkSaw = [v \in Videos |-> "unchecked"]
    /\ consumed = {}
    /\ counters = [processed |-> 0, skipped |-> 0, errors |-> 0, completed |-> 0]
    /\ cancelIdx = 0
    /\ observed = [seen |-> FALSE, started |-> {}, completed |-> 0]
    /\ cancelled = {}
    /\ stopAt = -1
    /\ summary = [shown |-> FALSE, processed |-> 0, skipped |-> 0, errors |-> 0]
    /\ progress = -1
    /\ buttons = ButtonsIdle

\* A faulty variant of the start: the start button is never disabled.
CanStartByFlagOnly(flag, start_button) == ~flag

\* Whether a click on "Start Processing" starts a batch: the button's
\* command runs when the button is not disabled (lines 404-405, 520), and
\* start_processing returns at once when is_processing is set (line 633).
CanStart(flag, start_button) == ~flag /\ start_button = "normal"

\* start_processing, lines 633-676, with valid directories and settings:
\* the flag is raised, the stop button enabled, the controls disabled and
\* the thread of process_videos started, for the first batch or, with the
\* same directories and settings, for a later one.
StartProcessing ==
    /\ CanStart(is_processing, buttons.start)
    /\ is_processing' = TRUE
    /\ buttons' = ButtonsProcessing
    /\ bpc' = "started"
    /\ toProcess' = << >>
    /\ max_workers' = 0
    /\ fut' = [v \in Videos |-> "none"]
    /\ result_' = [v \in Videos |-> "none"]
    /\ probed' = {}
    /\ sampled' = {}
    /\ filterSaw' = [v \in Videos |-> "unchecked"]
    /\ checkSaw' = [v \in Videos |-> "unchecked"]
    /\ consumed' = {}
    /\ counters' = [processed |-> 0, skipped |-> 0, errors |-> 0, completed |-> 0]
    /\ cancelIdx' = 0
    /\ observed' = [seen |-> FALSE, started |-> {}, completed |-> 0]
    /\ cancelled' = {}
    /\ stopAt' = -1
    /\ summary' = [shown |-> FALSE, processed |-> 0, skipped |-> 0, errors |-> 0]
    /\ progress' = -1
    /\ UNCHANGED << nVideos, files, overwrite, uiFormat >>
    /\ UNCHANGED notBatch

\* stop_processing, on the UI thread, while the stop button is enabled.
StopProcessing ==
    /\ bpc \in {"started", "loop", "cancel", "shutdown"}
    /\ buttons.stop = "normal"
    /\ is_processing
    /\ is_processing' = FALSE
    /\ stopAt' = IF stopAt < 0 THEN counters.completed ELSE stopAt
    /\ UNCHANGED << bpc, nVideos, files, overwrite, uiFormat, toProcess,
                    max_workers, fut, result_, probed, sampled, filterSaw,
                    checkSaw, consumed, counters, cancelIdx, observed,
                    cancelled, summary >>
    /\ UNCHANGED progress
    /\ UNCHANGED buttons
    /\ UNCHANGED notBatch

\* A faulty variant of the filter: the videos it leaves out are not counted.
SkippedByFilterForgotten(total, kept) == 0

\* Lines 776-791: skipped after the filter loop, one for each of the total
\* videos that was not kept in videos_to_process.
SkippedByFilter(total, kept) == total - kept

\* process_videos up to the submission of the tasks (lines 759-825), and its
\* "finally" (lines 877-882) on the two early returns and on an exception
\* raised before the tasks are submitted (the scan of the directory, the
\* creation of an output directory).
Prepare ==
    /\ bpc = "started"
    /\ \E raises \in BOOLEAN :
       IF nVideos = 0 \/ raises
       THEN \* nothing found, or an exception on the way (lines 875-876)
            /\ bpc' = "done"
            /\ is_processing' = FALSE
            /\ UNCHANGED << filterSaw, counters, toProcess, max_workers, fut >>
       ELSE LET saw == [v \in Videos |-> OutputPath(v, ConfigOutputFormat) \in files]
                todo == Ascending({ v \in Videos : ~ShouldSkip(saw[v], overwrite) })
            IN  /\ filterSaw' = [v \in Videos |-> IF saw[v] THEN "exists" ELSE "absent"]
                /\ counters' = [counters EXCEPT
                                   !.skipped = SkippedByFilter(nVideos, Len(todo))]
                /\ IF todo = << >>
                   THEN /\ bpc' = "done"
                        /\ is_processing' = FALSE
                        /\ UNCHANGED << toProcess, max_workers, fut >>
                   ELSE /\ \E setting \in WorkerSettings :
                               max_workers' = WorkerCount(setting, Len(todo))
                        /\ toProcess' = todo
                        /\ fut' = [v \in Videos |->
                                     IF v \in Range(todo) THEN "pending" ELSE "none"]
                        /\ bpc' = "loop"
                        /\ UNCHANGED is_processing
    /\ UNCHANGED << nVideos, files, overwrite, uiFormat, result_, probed, sampled,
                    checkSaw, consumed, cancelIdx, observed, cancelled,
                    stopAt, summary >>
    /\ UNCHANGED progress
    /\ buttons' = IF bpc' = "done" THEN ButtonsIdle ELSE buttons
    /\ UNCHANGED notBatch

\* A pool thread takes the oldest pending task and runs process_single_video
\* up to the test of the output file (lines 687-708); anything raised on the
\* way is the error result of line 755.
WorkerStart(v) ==
    /\ bpc \in {"loop", "cancel", "shutdown"}
    /\ fut[v] = "pending"
    /\ \A i, j \in DOMAIN toProcess :
           (toProcess[j] = v /\ i < j) => fut[toProcess[i]] # "pending"
    /\ Cardinality(Running) < max_workers
    /\ \E r \in {"raises", "checked"} :
         IF r = "raises"
         THEN /\ fut' = [fut EXCEPT ![v] = "finished"]
              /\ result_' = [result_ EXCEPT ![v] = "error"]
              /\ UNCHANGED checkSaw
         ELSE LET exists == OutputPath(v, uiFormat) \in files
              IN  /\ checkSaw' = [checkSaw EXCEPT
                                     ![v] = IF exists THEN "exists" ELSE "absent"]
                  /\ IF ShouldSkip(exists, overwrite)
                     THEN /\ fut' = [fut EXCEPT ![v] = "finished"]
                          /\ result_' = [result_ EXCEPT ![v] = "skipped"]
                     ELSE /\ fut' = [fut EXCEPT ![v] = "running"]
                          /\ UNCHANGED result_
    /\ UNCHANGED << bpc, is_processing, nVideos, files, overwrite, uiFormat,
                    toProcess, max_workers, probed, sampled, filterSaw, consumed,
                    counters, cancelIdx, observed, cancelled, stopAt, summary >>
    /\ UNCHANGED progress
    /\ UNCHANGED buttons
    /\ UNCHANGED notBatch

\* The rest of process_single_video (lines 710-755): probe, sample, compose,
\* save; the step that fails, if one does, decides what was called.
WorkerRun(v) ==
    /\ fut[v] = "running"
    /\ \E r \in {"probe_raises", "no_metadata", "extract_fails", "compose_fails",
                 "save_fails", "success"} :
         /\ probed' = probed \cup {v}
         /\ sampled' = IF r \in {"probe_raises", "no_metadata"}
                       THEN sampled ELSE sampled \cup {v}
         /\ files' = IF r = "success"
                     THEN files \cup { SavedPath(OutputPath(v, uiFormat), uiFormat) }
                     ELSE files
         /\ result_' = [result_ EXCEPT
                           ![v] = IF r = "success" THEN "success" ELSE "error"]
    /\ fut' = [fut EXCEPT ![v] = "finished"]
    /\ UNCHANGED << bpc, is_processing, nVideos, overwrite, uiFormat, toProcess,
                    max_workers, filterSaw, checkSaw, consumed, counters,
                    cancelIdx, observed, cancelled, stopAt, summary >>
    /\ UNCHANGED progress
    /\ UNCHANGED buttons
    /\ UNCHANGED notBatch

\* Line 852: the numerator of progress=(skipped + completed) / total_videos.
ProgressOf(c) == c.skipped + c.completed

\* One iteration of "for future in as_completed(future_to_video)" (lines
\* 828-855) for the finished future of video v.
Consume(v) ==
    /\ bpc = "loop"
    /\ fut[v] = "finished"
    /\ v \notin consumed
    /\ IF SeesStop(is_processing)
       THEN /\ observed' = [seen |-> TRUE,
                            started |-> { u \in Videos : fut[u] \in {"running", "finished"} },
                            completed |-> counters.completed]
            /\ bpc' = "cancel"
            /\ cancelIdx' = 1
            /\ UNCHANGED << consumed, counters >>
            /\ UNCHANGED progress
       ELSE /\ consumed' = consumed \cup {v}
            /\ counters' = Tally(counters, result_[v])
            /\ progress' = ProgressOf(counters')
            /\ UNCHANGED << observed, bpc, cancelIdx >>
    /\ UNCHANGED << is_processing, nVideos, files, overwrite, uiFormat, toProcess,
                    max_workers, fut, result_, probed, sampled, filterSaw,
                    checkSaw, cancelled, stopAt, summary, buttons >>
    /\ UNCHANGED notBatch

\* Lines 857-882 after the loop has handled every future: the "Complete!"
\* message with the counts if the flag is still up, then the "finally".
Finish ==
    /\ bpc = "loop"
    /\ Range(toProcess) \subseteq consumed
    /\ IF is_processing
       THEN summary' = [shown |-> TRUE, processed |-> counters.processed,
                        skipped |-> counters.skipped, errors |-> counters.errors]
       ELSE UNCHANGED summary
    /\ is_processing' = FALSE
    /\ bpc' = "done"
    /\ UNCHANGED << nVideos, files, overwrite, uiFormat, toProcess, max_workers,
                    fut, result_, probed, sampled, filterSaw, checkSaw, consumed,
                    counters, cancelIdx, observed, cancelled, stopAt >>
    /\ UNCHANGED progress
    /\ buttons' = ButtonsIdle
    /\ UNCHANGED notBatch

\* One f.cancel() of the loop of lines 831-832; after the last, the message
\* of line 833 and the break into the executor's shutdown.
CancelStep ==
    /\ bpc = "cancel"
    /\ cancelIdx <= Len(toProcess)
    /\ LET v == toProcess[cancelIdx]
       IN  /\ fut' = [fut EXCEPT ![v] = CancelFuture(fut[v])]
           /\ cancelled' = IF fut'[v] = "cancelled" /\ fut[v] # "cancelled"
                           THEN cancelled \cup {v} ELSE cancelled
    /\ cancelIdx' = cancelIdx + 1
    /\ bpc' = IF cancelIdx = Len(toProcess) THEN "shutdown" ELSE bpc
    /\ UNCHANGED << is_processing, nVideos, files, overwrite, uiFormat, toProcess,
                    max_workers, result_, probed, sampled, filterSaw, checkSaw,
                    consumed, counters, observed, stopAt, summary >>
    /\ UNCHANGED progress
    /\ UNCHANGED buttons
    /\ UNCHANGED notBatch

\* The end of the "with ThreadPoolExecutor" block after the break:
\* shutdown(wait=True) returns when no task is running or pending; then lines
\* 857-882.
Shutdown ==
    /\ bpc = "shutdown"
    /\ \A v \in Videos : fut[v] \notin {"running", "pending"}
    /\ IF is_processing
       THEN summary' = [shown |-> TRUE, processed |-> counters.processed,
                        skipped |-> counters.skipped, errors |-> counters.errors]
       ELSE UNCHANGED summary
    /\ is_processing' = FALSE
    /\ bpc' = "done"
    /\ UNCHANGED << nVideos, files, overwrite, uiFormat, toProcess, max_workers,
                    fut, result_, probed, sampled, filterSaw, checkSaw, consumed,
                    counters, cancelIdx, observed, cancelled, stopAt >>
    /\ UNCHANGED progress
    /\ buttons' = ButtonsIdle
    /\ UNCHANGED notBatch

BatchNext ==
    \/ StartProcessing
    \/ StopProcessing
    \/ Prepare
    \/ \E v \in Videos : WorkerStart(v)
    \/ \E v \in Videos : WorkerRun(v)
    \/ \E v \in Videos : Consume(v)
    \/ Finish
    \/ CancelStep
    \/ Shutdown

SpecBatch == BatchInit /\ [][BatchNext]_vars

\* ---------------------------------------------------------- batch: claims

Dispatched == Range(toProcess)

WithResult(S, st) == { v \in S : result_[v] = st }

FilterSkipped == { v \in Videos : ~overwrite /\ filterSaw[v] = "exists" }

StopPressed == stopAt >= 0

\* C5: with overwrite_existing False, a video whose output file the filter
\* found existing is counted as skipped and never dispatched, a video whose
\* output file its worker found existing gets the skipped result, and for
\* neither is the metadata probed or extract_screenshots called; the skipped
\* count is the number of both kinds seen so far.
C5_SkipExisting ==
    ~overwrite =>
        /\ \A v \in Videos :
               /\ (filterSaw[v] = "exists") =>
                      /\ fut[v] = "none"
                      /\ v \notin Dispatched
                      /\ v \notin probed \cup sampled
               /\ (checkSaw[v] = "exists") =>
                      /\ fut[v] = "finished"
                      /\ result_[v] = "skipped"
                      /\ v \notin probed \cup sampled
        /\ (bpc # "idle" /\ bpc # "started") =>
               counters.skipped = Cardinality(FilterSkipped)
                                    + Cardinality(WithResult(consumed, "skipped"))

\* C5 witness: a batch ended in which the filter skipped one video and a
\* worker skipped another, whose file the filter had not found.
C5_SkippedByFilterAndWorker ==
    /\ bpc = "done"
    /\ ~overwrite
    /\ \E u, v \in Videos :
           /\ filterSaw[u] = "exists"
           /\ filterSaw[v] = "absent"
           /\ checkSaw[v] = "exists"
           /\ v \in consumed
    /\ summary.shown
    /\ summary.skipped = 2

C8_SummaryOfEveryResult ==
    (bpc = "done" /\ toProcess # << >>) =>
        /\ summary.shown
        /\ summary.processed = Cardinality(WithResult(Videos, "success"))
        /\ summary.errors = Cardinality(WithResult(Videos, "error"))
        /\ summary.skipped = Cardinality(FilterSkipped)
                               + Cardinality(WithResult(Videos, "skipped"))

\* ------------------------------------------------------ grid: create_grid

\* An image of the list is its size, its timestamp and whether it is one of
\* the black images create_grid makes.
Sample(size, i) == [size |-> size, ts |-> i, blank |-> FALSE]

\* Line 179-180: Image.new('RGB', images[0][0].size, color='black'), 0.0.
Blank(first) == [size |-> first.size, ts |-> 0, blank |-> TRUE]

\* A faulty variant of the padding: nothing is appended.
PadNothing(imgs, total_needed) == imgs

\* The while loop of lines 176-180, on a list that is not empty.
RECURSIVE PadImages(_, _)
PadImages(imgs, total_needed) ==
    IF Len(imgs) < total_needed
    THEN PadImages(Append(imgs, Blank(imgs[1])), total_needed)
    ELSE imgs

\* Line 183: images[:total_needed].
Truncate(imgs, total_needed) == SubSeq(imgs, 1, Min(Len(imgs), total_needed))

\* A faulty variant of the scale factor: min(width_ratio, height_ratio),
\* without the 1.0.
ScaleFactorUncapped(gsize, cfg) ==
    LET width_ratio == Rat(cfg.columns * cfg.box[1], gsize[1])
        height_ratio == Rat(cfg.rows * cfg.box[2], gsize[2])
    IN  IF RatLess(height_ratio, width_ratio) THEN height_ratio
        ELSE width_ratio

\* Lines 207-213: scale_factor = min(width_ratio, height_ratio, 1.0), in
\* exact arithmetic.
ScaleFactor(gsize, cfg) ==
    LET width_ratio == Rat(cfg.columns * cfg.box[1], gsize[1])
        height_ratio == Rat(cfg.rows * cfg.box[2], gsize[2])
        least == IF RatLess(height_ratio, width_ratio) THEN height_ratio
                 ELSE width_ratio
    IN  IF RatLess(Rat(1, 1), least) THEN Rat(1, 1) ELSE least

\* Line 215: whether the grid is resized.
GridResized(gsize, cfg) == RatLess(ScaleFactor(gsize, cfg), Rat(1, 1))

\* Lines 215-222: the size of grid_image, int() of the products for the
\* one resize of the full-resolution grid.
ScaledGrid(gsize, cfg) ==
    LET scale_factor == ScaleFactor(gsize, cfg)
    IN  IF scale_factor # Rat(1, 1)
        THEN << IntDiv(gsize[1] * scale_factor.n, scale_factor.d),
                IntDiv(gsize[2] * scale_factor.n, scale_factor.d) >>
        ELSE gsize

\* Lines 193-194: the size of full_res_grid.
NativeGrid(first, cfg) ==
    << cfg.columns * first.size[1], cfg.rows * first.size[2] >>

\* Lines 186-233: (screenshot_width, screenshot_height) of the grid.
CellSize(first, cfg, rac) ==
    IF rac
    THEN LET g == ScaledGrid(NativeGrid(first, cfg), cfg)
         IN  << g[1] \div cfg.columns, g[2] \div cfg.rows >>
    ELSE first.size

LabelOrder == << "title", "resolution", "file_size", "duration", "codec" >>

\* metadata.get('file_size', 0) and metadata.get('duration', 0.0).
MetaNumber(meta, key) ==
    IF key \notin meta.keys THEN 0
    ELSE IF key = "file_size" THEN meta.file_size ELSE meta.duration

\* Lines 246-268: whether the label's line is appended.  The title and the
\* codec are read with .get(key, 'Unknown') and always appended; the
\* resolution is appended when the dict has it.
LabelShown(l, cfg, meta) ==
    /\ l \in cfg.show
    /\ CASE l = "resolution" -> "resolution" \in meta.keys
         [] l = "file_size" -> MetaNumber(meta, "file_size") > 0
         [] l = "duration" -> MetaNumber(meta, "duration") > 0
         [] OTHER -> TRUE

\* A faulty variant of the label text: a missing title or codec is shown as
\* if the dict had it.
LabelTextOfValue(l, meta) == "value"

\* The text after the label's name: the formatted value of the dict, or
\* 'Unknown' for a title or codec the dict does not have.
LabelText(l, meta) == IF l \in meta.keys THEN "value" ELSE "Unknown"

\* Line 239: the header is laid out when there is metadata and a label is on.
HasHeader(cfg, meta) == meta.present /\ cfg.show # {}

RECURSIVE LinesOf(_, _, _)
LinesOf(ls, cfg, meta) ==
    IF ls = << >> THEN << >>
    ELSE LET l == Head(ls)
             rest == LinesOf(Tail(ls), cfg, meta)
         IN  IF LabelShown(l, cfg, meta)
             THEN << [label |-> l, text |-> LabelText(l, meta)] >> \o rest
             ELSE rest

LabelLines(cfg, meta) ==
    IF HasHeader(cfg, meta) THEN LinesOf(LabelOrder, cfg, meta) ELSE << >>

FontSize == 18

LineHeight == FontSize + 10

HeaderPadding == 10

\* A faulty variant of the canvas: no room for the header.
CanvasWithoutHeader(cfg, cell, header_height) ==
    << cfg.columns * cell[1], cfg.rows * cell[2] >>

\* Lines 275 and 280-282: the size of final_image.
CanvasSize(cfg, cell, header_height) ==
    << cfg.columns * cell[1], cfg.rows * cell[2] + header_height >>

\* Line 270, and line 236 when the header is not laid out.
HeaderHeight(cfg, meta) ==
    IF HasHeader(cfg, meta)
    THEN Len(LabelLines(cfg, meta)) * LineHeight + (HeaderPadding * 2)
    ELSE 0

GridSizes == { <<2, 2>>, <<8, 6>>, <<6, 8>> }

GridBoxes == { <<4, 3>>, <<8, 8>> }

ShowChoices == { {}, {"file_size"}, {"title", "codec"},
                 {"title", "resolution", "file_size", "duration", "codec"} }

AllKeys == {"title", "resolution", "file_size", "duration", "codec"}

\* No metadata; a dict with every key, or with one key missing, or with
\* none of them; a dict whose file size and duration are zero.
MetadataChoices ==
    { NoMetadata }
        \cup { [present |-> TRUE, keys |-> AllKeys \ ks, file_size |-> 1,
               duration |-> 1] :
                 ks \in { {} , AllKeys } \cup { {k} : k \in AllKeys } }
        \cup { [present |-> TRUE, keys |-> AllKeys, file_size |-> 0,
               duration |-> 0] }

\* A call of create_grid about to be made: the samples of one video, all of
\* one size, under a config that passed ProcessingConfig's validation.
GridInit ==
    /\ CacheIdle
    /\ SamplerIdle
    /\ BatchIdle
    /\ ProbeIdle
    /\ OsIdle
    /\ PathIdle
    /\ ConfigIdle
    /\ gpc = "call"
    /\ gconfig \in [rows : 1 .. MaxRows, columns : 1 .. MaxCols,
                    box : GridBoxes, show : ShowChoices]
    /\ \E n \in 0 .. (gconfig.rows * gconfig.columns + MaxExtra) :
       \E size \in GridSizes :
           images = [i \in 1 .. n |-> Sample(size, i)]
    /\ given = images
    /\ gmetadata \in MetadataChoices
    /\ resize_after_compose \in BOOLEAN
    /\ grid = NoGrid

\* create_grid, lines 168-344.  The timestamps and the watermark are drawn on
\* the final image and change neither its size nor its cells.
CreateGrid ==
    /\ gpc = "call"
    /\ IF Len(images) = 0
       THEN /\ gpc' = "raised"
            /\ UNCHANGED << images, grid >>
       ELSE LET total_needed == gconfig.rows * gconfig.columns
                padded == PadImages(images, total_needed)
                used == Truncate(padded, total_needed)
                cell == CellSize(used[1], gconfig, resize_after_compose)
                header_height == HeaderHeight(gconfig, gmetadata)
                native == NativeGrid(used[1], gconfig)
                rac == resize_after_compose
            IN  /\ images' = padded
                /\ grid' = [cells |-> used,
                            cell |-> cell,
                            size |-> CanvasSize(gconfig, cell, header_height),
                            labels |-> LabelLines(gconfig, gmetadata),
                            scale |-> IF rac THEN ScaleFactor(native, gconfig)
                                      ELSE Rat(1, 1),
                            scaled |-> IF rac THEN ScaledGrid(native, gconfig)
                                       ELSE <<0, 0>>,
                            resizes |-> IF rac /\ GridResized(native, gconfig)
                                        THEN 1 ELSE 0]
                /\ gpc' = "returned"
    /\ UNCHANGED << given, gconfig, gmetadata, resize_after_compose >>
    /\ UNCHANGED notGrid

GridNext == CreateGrid

SpecGrid == GridInit /\ [][GridNext]_vars

\* ----------------------------------------------------------- grid: claims

TotalNeeded == gconfig.rows * gconfig.columns

\* The cells of the returned grid: rows * columns of them, on a canvas of
\* columns by rows cells under the header, holding the samples given in
\* their order and then black images of the first sample's size.
GridOfGiven ==
    /\ gpc = "returned"
    /\ Len(grid.cells) = TotalNeeded
    /\ grid.size = << gconfig.columns * grid.cell[1],
                      gconfig.rows * grid.cell[2]
                        + HeaderHeight(gconfig, gmetadata) >>
    /\ \A i \in 1 .. TotalNeeded :
           IF i <= Len(given)
           THEN grid.cells[i] = given[i]
           ELSE /\ grid.cells[i].blank
                /\ grid.cells[i].size = given[1].size

\* C9 as claimed: a call with fewer samples than rows * columns, whatever
\* their number, does not raise and returns a grid of rows * columns cells,
\* and a longer list is truncated.
C9_FewerSamplesNeverRaises ==
    (gpc \in {"returned", "raised"}) => GridOfGiven

\* C9 as amended: a call with at least one sample does not raise and returns
\* a grid of rows * columns cells, the missing ones black images of the first
\* sample's size and a longer list truncated; a call with no sample raises
\* ValueError.
C9_PaddedGrid ==
    /\ (gpc \in {"returned", "raised"} /\ Len(given) >= 1) => GridOfGiven
    /\ (gpc \in {"returned", "raised"} /\ Len(given) = 0) => gpc = "raised"

\* C9 witness: a grid of four cells returned for one sample.
C9_OneSampleOfFour ==
    /\ gpc = "returned"
    /\ Len(given) = 1
    /\ TotalNeeded = 4
    /\ Len(grid.cells) = 4
    /\ grid.cells[4].blank

BoxOfGrid == << gconfig.columns * gconfig.box[1], gconfig.rows * gconfig.box[2] >>

NativeOfGiven == << gconfig.columns * given[1].size[1],
                    gconfig.rows * given[1].size[2] >>

FitsIn(size, box) == size[1] <= box[1] /\ size[2] <= box[2]

\* C11: in compose-then-resize mode a grid whose native size is within
\* (columns * max_w, rows * max_h) has the scale factor 1 and is not
\* resized; any other grid is resized once, by a factor below 1, and the
\* resized grid is within (columns * max_w, rows * max_h).
C11_ScaleToFitOnce ==
    (gpc = "returned" /\ resize_after_compose) =>
        IF FitsIn(NativeOfGiven, BoxOfGrid)
        THEN /\ grid.scale = Rat(1, 1)
             /\ grid.resizes = 0
             /\ grid.scaled = NativeOfGiven
        ELSE /\ RatLess(grid.scale, Rat(1, 1))
             /\ grid.resizes = 1
             /\ FitsIn(grid.scaled, BoxOfGrid)
             /\ grid.scaled # NativeOfGiven

\* C11 witness: a grid of 2 by 2 frames of 6x8 for the box 4x3, resized once
\* from 12x16 to 4x6.
C11_TallGridResized ==
    /\ gpc = "returned"
    /\ resize_after_compose
    /\ NativeOfGiven = <<12, 16>>
    /\ BoxOfGrid = <<8, 6>>
    /\ grid.resizes = 1
    /\ grid.scaled = <<4, 6>>

LabelsOfLines == { grid.labels[i].label : i \in DOMAIN grid.labels }

EnabledAndAbsent == gconfig.show \ gmetadata.keys

C18_CanvasOfCells ==
    (gpc = "returned") =>
        /\ grid.cell \in Nat \X Nat
        /\ grid.size[1] = gconfig.columns * grid.cell[1]
        /\ grid.size[2] = gconfig.rows * grid.cell[2]
                            + HeaderHeight(gconfig, gmetadata)
        /\ \A i \in DOMAIN grid.cells : grid.cells[i].size = given[1].size
        /\ IF resize_after_compose
           THEN /\ grid.resizes <= 1
                /\ grid.cell = << grid.scaled[1] \div gconfig.columns,
                                  grid.scaled[2] \div gconfig.rows >>
                /\ (grid.resizes = 0) => grid.scaled = NativeOfGiven
           ELSE /\ grid.resizes = 0
                /\ grid.cell = given[1].size

\* C18 witness: a grid of four cells, resized once, under a header of two
\* lines.
C18_ScaledWithHeader ==
    /\ gpc = "returned"
    /\ resize_after_compose
    /\ grid.resizes = 1
    /\ Len(grid.labels) = 2
    /\ grid.size[2] = gconfig.rows * grid.cell[2] + 2 * LineHeight + 2 * HeaderPadding
    /\ gconfig.columns * gconfig.rows = 4

\* ------------------------------------------------- batch: the worker pool

\* C12: the pool of a batch that dispatches videos has at least one worker
\* and no more workers than videos to process, nor than 16, whatever the
\* worker-count setting holds.
C12_PoolSizeClamped ==
    (toProcess # << >>) =>
        /\ max_workers >= 1
        /\ max_workers <= Min(Len(toProcess), 16)

\* --------------------------------------------- batch: the path tested

\* The file that processing video v writes, for the format selected in the
\* window (lines 742-749).
WrittenPath(v) == SavedPath(OutputPath(v, uiFormat), uiFormat)

\* The videos left out as already existing: by the filter, or by the
\* skipped result of their worker.
LeftOut == FilterSkipped \cup WithResult(Videos, "skipped")

\* C24: the filter and the worker test the path that processing the video
\* writes, so a video is left out as already existing only if the file it
\* would write exists.
C24_LeftOutOnlyIfOutputExists ==
    /\ \A v \in Videos :
           /\ (filterSaw[v] # "unchecked") =>
                  OutputPath(v, ConfigOutputFormat) = WrittenPath(v)
           /\ (checkSaw[v] # "unchecked") =>
                  OutputPath(v, uiFormat) = WrittenPath(v)
    /\ \A v \in LeftOut : WrittenPath(v) \in files

\* ------------------------------------------------- batch: the progress

\* C25: every progress value the loop passes, (skipped + completed) out of
\* total_videos, is between 0 and 1, and no value is smaller than the one
\* passed before it.
C25_ProgressInUnitIntervalAndMonotonic ==
    /\ [](progress # -1 => (0 <= progress /\ progress <= nVideos))
    /\ [][bpc' # "started" => progress' >= progress]_vars

BatchFairness ==
    /\ WF_vars(Prepare)
    /\ WF_vars(\E v \in Videos : WorkerStart(v))
    /\ WF_vars(\E v \in Videos : WorkerRun(v))
    /\ WF_vars(\E v \in Videos : Consume(v))
    /\ WF_vars(Finish)
    /\ WF_vars(CancelStep)
    /\ WF_vars(Shutdown)

SpecBatchFair == BatchInit /\ [][BatchNext]_vars /\ BatchFairness

\* A batch is running: its thread was started and has not ended.
BatchActive == bpc \in {"started", "loop", "cancel", "shutdown"}

\* The end of process_videos (lines 877-882).
BatchEnded ==
    /\ bpc = "done"
    /\ ~is_processing
    /\ buttons = [stop |-> "disabled", start |-> "normal"]

ProbeBehaviours ==
    { [does |-> d, resolution |-> <<0, 0>>, duration |-> 0, forks |-> f] :
          d \in {"missing", "fails", "bad_json", "no_stream", "hangs"},
          f \in BOOLEAN }
        \cup { [does |-> "answers", resolution |-> r, duration |-> t,
                forks |-> f] :
                   r \in {<<0, 0>>, <<8, 6>>},
                   t \in (0 - MaxDur) .. MaxDur,
                   f \in BOOLEAN }

ProbeInit ==
    /\ CacheIdle
    /\ SamplerIdle
    /\ BatchIdle
    /\ GridIdle
    /\ PathIdle
    /\ ConfigIdle
    /\ ppc = "popen"
    /\ platform \in {"win32", "posix"}
    /\ ffprobe \in { b \in ProbeBehaviours : b.does = "missing" => ~b.forks }
    /\ taskkill \in BOOLEAN
    /\ child = "none"
    /\ descendant = "none"
    /\ app = "alive"
    /\ killedFor = "none"
    /\ probeResult = NoProbeResult

\* Lines 143-145: Popen, which raises FileNotFoundError when there is no
\* ffprobe (lines 207-214 then return None).  The child is started without a
\* session or process group of its own.
ProbeSpawn ==
    /\ ppc = "popen"
    /\ IF ffprobe.does = "missing"
       THEN /\ ppc' = "returned"
            /\ UNCHANGED << child, descendant >>
       ELSE /\ ppc' = "communicate"
            /\ child' = "running"
            /\ descendant' = IF ffprobe.forks THEN "running" ELSE "none"
    /\ UNCHANGED << platform, ffprobe, taskkill, app, killedFor, probeResult >>
    /\ UNCHANGED notProbe

\* Lines 194-201: the dict is returned when width and height are given.
ParsedMetadata(out) ==
    IF out.resolution[1] # 0 /\ out.resolution[2] # 0
    THEN [ok |-> TRUE, resolution |-> out.resolution, duration |-> out.duration]
    ELSE NoProbeResult

\* Lines 146-206: communicate(timeout=5) and the reading of the output.  A
\* child that exits is reaped, with the process it started; output that is
\* no JSON raises ValueError, and TimeoutExpired is raised for a child that
\* hangs: both go to _kill_process.
ProbeCommunicate ==
    /\ ppc = "communicate"
    /\ IF ffprobe.does = "hangs"
       THEN /\ killedFor' = "timeout"
            /\ ppc' = "kill"
            /\ UNCHANGED << child, descendant, probeResult >>
       ELSE /\ child' = "exited"
            /\ descendant' = IF ffprobe.forks THEN "exited" ELSE "none"
            /\ IF ffprobe.does = "bad_json"
               THEN /\ killedFor' = "except"
                    /\ ppc' = "kill"
                    /\ UNCHANGED probeResult
               ELSE /\ probeResult' = IF ffprobe.does = "answers"
                                      THEN ParsedMetadata(ffprobe)
                                      ELSE NoProbeResult
                    /\ ppc' = "finally"
                    /\ UNCHANGED killedFor
    /\ UNCHANGED << platform, ffprobe, taskkill, app >>
    /\ UNCHANGED notProbe

\* _kill_process, lines 81-106.  For a child that was reaped, os.getpgid
\* raises and terminate() does nothing.  On win32 taskkill /F /T ends the
\* child and what it started, and terminate() ends the child if taskkill
\* did not.  Elsewhere SIGTERM goes to the process group of the child: the
\* application has no handler for it and is terminated.
ProbeKill ==
    /\ ppc = "kill"
    /\ IF child # "running"
       THEN /\ ppc' = "finally"
            /\ UNCHANGED << child, descendant, app >>
       ELSE IF platform = "win32"
       THEN /\ child' = "exited"
            /\ descendant' = IF descendant = "running" /\ taskkill
                             THEN "exited" ELSE descendant
            /\ ppc' = "finally"
            /\ UNCHANGED app
       ELSE /\ app' = IF "app" \in GroupOfChild THEN "terminated" ELSE app
            /\ \E c \in {"running", "exited"} :
                   /\ child' = c
                   /\ descendant' = IF descendant = "running" THEN c
                                    ELSE descendant
            /\ ppc' = IF "app" \in GroupOfChild THEN "terminated"
                      ELSE "finally"
    /\ UNCHANGED << platform, ffprobe, taskkill, killedFor, probeResult >>
    /\ UNCHANGED notProbe

\* Lines 206 and 211-214: the finally clause, which calls _kill_process for a
\* child still running (SIGKILL after the two seconds of line 93), and the
\* return.
ProbeReturn ==
    /\ ppc = "finally"
    /\ child' = IF child = "running" THEN "exited" ELSE child
    /\ descendant' = IF child = "running" /\ descendant = "running"
                     THEN "exited" ELSE descendant
    /\ ppc' = "returned"
    /\ UNCHANGED << platform, ffprobe, taskkill, app, killedFor, probeResult >>
    /\ UNCHANGED notProbe

ProbeNext == ProbeSpawn \/ ProbeCommunicate \/ ProbeKill \/ ProbeReturn

SpecProbe == ProbeInit /\ [][ProbeNext]_vars

\* ---------------------------------------------------------- probe: claims

ProbeEnded == ppc \in {"returned", "terminated"}

\* C13: a call whose ffprobe hangs ends by returning no metadata, the
\* application going on, with neither the ffprobe process nor a process it
\* started still running; and whenever get_metadata_ffprobe returns, the
\* ffprobe process is not running.
C13_HungProbeTimesOut ==
    /\ (ppc = "returned") => child # "running"
    /\ (ProbeEnded /\ ffprobe.does = "hangs") =>
           /\ ppc = "returned"
           /\ app = "alive"
           /\ probeResult = NoProbeResult
           /\ child = "exited"
           /\ descendant # "running"

\* C28: a call of _kill_process on a running ffprobe signals that process
\* and what it started and nothing else, and the application is never
\* terminated by it.
C28_KillSignalsOnlyOwnTree ==
    /\ (ppc = "kill" /\ child = "running") =>
           Signalled \subseteq {"child", "descendant"}
    /\ app = "alive"

\* ------------------------------------------------ sampler: invalid videos

\* C14: a call of extract_screenshots for a video whose metadata cannot be
\* read (the call ends before any strategy) or whose duration is zero or
\* negative opens no container, seeks or decodes at no timestamp and starts
\* no decoder process, and ends by raising ValueError.
C14_InvalidVideoNotSampled ==
    (ViaExtractScreenshots /\ (req.duration <= 0 \/ (spc = "done" /\ calls = << >>))) =>
        /\ attempts = << >>
        /\ opens = 0
        /\ spc = "done" => outcome = "ValueError"

\* ------------------------------------------- sampler: the preview callback

ReturningStrategy == calls[Len(calls)]

PreviewsBy(s) == SelectSeq(previewLog, LAMBDA e : e.s = s)

\* C15: when a call returns frames and was given a preview callback, the
\* invocations of the callback by the strategy that returned them are, in
\* the order of the result (that of the generated timestamps), one per frame
\* returned, with the image as stored after the resize and its timestamp;
\* without a callback nothing is invoked.
C15_PreviewPerReturnedFrame ==
    /\ (req.cb = "none") => previewLog = << >>
    /\ (spc = "done" /\ outcome = "returned" /\ req.cb # "none") =>
           /\ PreviewsBy(ReturningStrategy)
                  = [i \in 1 .. Len(result) |->
                        [s |-> ReturningStrategy, ts |-> result[i].ts,
                         img |-> result[i].img]]
           /\ \A i, j \in 1 .. Len(result) :
                  (i < j) =>
                      PositionIn(result[i].ts, GeneratedBy(ReturningStrategy))
                          < PositionIn(result[j].ts, GeneratedBy(ReturningStrategy))
           /\ \A i \in 1 .. Len(result) :
                  result[i].img.size
                      = ResizedSize(req.src, req.full, req.box, origRes)

\* C15 witness: two frames returned with a callback, the first of a later
\* timestamp than the second, so decoded after it, and both previewed.
C15_TwoPreviewsOutOfDecodeOrder ==
    /\ spc = "done"
    /\ outcome = "returned"
    /\ req.cb = "ok"
    /\ Len(result) = 2
    /\ Len(previewLog) = 2
    /\ RatLess(result[2].ts, result[1].ts)

\* C27: within one call of extract_screenshots no two invocations of the
\* preview callback are for the same timestamp, whichever strategies ran.
C27_OnePreviewPerTimestamp ==
    ViaExtractScreenshots =>
        \A i, j \in DOMAIN previewLog :
            (i # j) => previewLog[i].ts # previewLog[j].ts

\* ------------------------------------- sampler: the decoder subprocesses

\* The worker of the call goes on after a timestamp: it is at the next
\* timestamp of the external-process loop, at the end of that loop, or has
\* returned.
WorkerGoesOn == spc \in {"ff_loop", "done"}

\* C20: every way a timestamp of the external-process loop can end (a frame
\* stored, no image, a non-zero exit, a timeout, an exception) brings the
\* worker to the next timestamp or to its return, and the ffmpeg process
\* started for the timestamp is not running any more then.
C20_NoDecoderLeftRunning ==
    (AttemptsOf("ffmpeg") # << >>) =>
        /\ WorkerGoesOn
        /\ decoder # "running"

\* ------------------------------------------- sampler: the container

\* C21: a call opens the container at most once, however many timestamps
\* it seeks; the container stays open during the in-process loop, and once
\* the in-process strategy has ended, by returning or by raising, every
\* container that was opened has been closed exactly once.
C21_ContainerOpenedAndClosedOnce ==
    /\ opens <= 1
    /\ closes <= opens
    /\ (spc = "py_loop") => (opens = 1 /\ closes = 0)
    /\ (stratResult.pyav # NotRun) => closes = opens

\* C21 witness: the in-process strategy ended after two timestamps, one of
\* them failed, with one container opened and closed.
C21_TwoTimestampsOneContainer ==
    /\ stratResult.pyav # NotRun
    /\ Len(AttemptsOf("pyav")) = 2
    /\ \E i \in 1..2 : ~AttemptsOf("pyav")[i].ok
    /\ opens = 1
    /\ closes = 1

\* ------------------------------------------ paths: calculate_output_path

\* A file name is the sequence of its parts between the dots; a directory
\* under input_dir or output_dir is the sequence of its components.

\* str.upper() of the format.
Upper(fmt) ==
    CASE fmt = "png" -> "PNG"
      [] fmt = "jpg" -> "JPG"
      [] OTHER -> fmt

\* Line 25: output_ext, without its dot.
OutputExt(output_format) == Ext(Upper(output_format))

\* A faulty variant of the file name: the video's extension is dropped.
FilenameOfStem(video_name, suffix, output_ext) ==
    LET stem == IF Len(video_name) > 1
                THEN SubSeq(video_name, 1, Len(video_name) - 1)
                ELSE video_name
    IN  [k \in 1 .. Len(stem) |->
            IF k = Len(stem) THEN << stem[k], suffix >> ELSE << stem[k], "" >>]
        \o << << output_ext, "" >> >>

\* Lines 24-30: output_filename = f"{video_name}{suffix}{output_ext}", with
\* video_name = os.path.basename(video_path): each part with what follows it
\* before the next dot.
OutputFilename(video_name, suffix, output_ext) ==
    [k \in 1 .. Len(video_name) |->
        IF k = Len(video_name) THEN << video_name[k], suffix >>
        ELSE << video_name[k], "" >>]
        \o << << output_ext, "" >> >>

\* os.makedirs(target_dir, exist_ok=True): target_dir and the directories
\* above it.
Prefixes(dir) == { SubSeq(dir, 1, k) : k \in 1 .. Len(dir) }

VideoNames == { << "a", "mp4" >>, << "a", "b", "mkv" >>, << "clip" >> }

RelDirs == { << >>, << "sub" >>, << "sub", "deep" >> }

\* find_video_files, video_processor.py lines 66-78: the videos of a batch
\* are the files of the walk of one directory, each by its directory and
\* name, so two of them differ in one or the other.
VideoFiles == [ rel : RelDirs, name : VideoNames ]

PathRequests ==
    { r \in
        [ rel : RelDirs,                \* os.path.relpath(video_dir, input_dir)
          name : VideoNames,            \* os.path.basename(video_path)
          format : {"JPG", "PNG", "png"},
          follow : BOOLEAN,
          suffix : {"", "_thumb"},
          drive : {"same", "other"},    \* relpath raises ValueError on "other"
          existing : { {}, { << "sub" >> } },
          writable : BOOLEAN,           \* whether makedirs can create
          other : VideoFiles ] :        \* another video of the batch
        r.other # [rel |-> r.rel, name |-> r.name] }

\* Lines 32-50: the directory of the output file under output_dir, the
\* video's own relative directory with follow_structure, output_dir itself
\* without it and when relpath raises ValueError.
TargetDir(rel, follow_structure, drive) ==
    IF follow_structure /\ drive = "same" THEN rel ELSE << >>

PathInit ==
    /\ CacheIdle
    /\ SamplerIdle
    /\ BatchIdle
    /\ GridIdle
    /\ ProbeIdle
    /\ OsIdle
    /\ ConfigIdle
    /\ pthpc = "call"
    /\ pathReq \in PathRequests
    /\ outDirs = pathReq.existing
    /\ outPath = NoPath
    /\ otherPath = NoPath

\* calculate_output_path, lines 24-50.
CalculateOutputPath ==
    /\ pthpc = "call"
    /\ LET output_filename == OutputFilename(pathReq.name, pathReq.suffix,
                                             OutputExt(pathReq.format))
           nested == TargetDir(pathReq.rel, pathReq.follow, pathReq.drive) # << >>
       IN  IF nested
           THEN IF Prefixes(pathReq.rel) \subseteq outDirs \/ pathReq.writable
                THEN /\ outDirs' = outDirs \cup Prefixes(pathReq.rel)
                     /\ outPath' = [dir |-> pathReq.rel, file |-> output_filename]
                     /\ pthpc' = "returned"
                ELSE /\ pthpc' = "raised"
                     /\ UNCHANGED << outDirs, outPath >>
           ELSE /\ outPath' = [dir |-> << >>, file |-> output_filename]
                /\ pthpc' = "returned"
                /\ UNCHANGED outDirs
    /\ UNCHANGED << pathReq, otherPath >>
    /\ UNCHANGED notPath

\* calculate_output_path, lines 24-50, called for the other video of the
\* batch with the same settings.
CalculateOtherPath ==
    /\ pthpc = "returned"
    /\ LET output_filename == OutputFilename(pathReq.other.name, pathReq.suffix,
                                             OutputExt(pathReq.format))
           target_dir == TargetDir(pathReq.other.rel, pathReq.follow,
                                   pathReq.drive)
       IN  IF target_dir # << >>
           THEN IF Prefixes(target_dir) \subseteq outDirs \/ pathReq.writable
                THEN /\ outDirs' = outDirs \cup Prefixes(target_dir)
                     /\ otherPath' = [dir |-> target_dir, file |-> output_filename]
                     /\ pthpc' = "both"
                ELSE /\ pthpc' = "other_raised"
                     /\ UNCHANGED << outDirs, otherPath >>
           ELSE /\ otherPath' = [dir |-> << >>, file |-> output_filename]
                /\ pthpc' = "both"
                /\ UNCHANGED outDirs
    /\ UNCHANGED << pathReq, outPath >>
    /\ UNCHANGED notPath

PathNext ==
    \/ CalculateOutputPath
    \/ CalculateOtherPath

SpecPath == PathInit /\ [][PathNext]_vars

\* ---------------------------------------------------------- paths: claims

\* The parts of a file name with the suffix after the last of them and the
\* image extension at the end.
NameThenSuffixThenExt(parts) ==
    [k \in 1 .. Len(parts) |->
        IF k = Len(parts) THEN << parts[k], pathReq.suffix >>
        ELSE << parts[k], "" >>]
        \o << << IF pathReq.format \in {"PNG", "png"} THEN "png" ELSE "jpg", "" >> >>

StemOf(name) == IF Len(name) > 1 THEN SubSeq(name, 1, Len(name) - 1) ELSE name

FollowsStructure == pathReq.follow /\ pathReq.drive = "same"

\* C16 as claimed: with follow_structure the path returned is, under the
\* video's relative directory, the video's name without its extension, then
\* the suffix and the image extension (a.jpg for a.mp4), and the directory
\* exists afterwards.
C16_PathOfStem ==
    (pthpc = "returned" /\ FollowsStructure) =>
        /\ outPath = [dir |-> pathReq.rel,
                      file |-> NameThenSuffixThenExt(StemOf(pathReq.name))]
        /\ Prefixes(pathReq.rel) \subseteq outDirs

\* C16 as amended: with follow_structure the path returned is, under the
\* video's relative directory, the video's file name with its extension,
\* then the suffix and the image extension (a.mp4.jpg for a.mp4), and the
\* directory exists afterwards; the call raises only when the directory
\* cannot be created.
C16_PathOfFileName ==
    /\ (pthpc = "returned" /\ FollowsStructure) =>
           /\ outPath = [dir |-> pathReq.rel,
                         file |-> NameThenSuffixThenExt(pathReq.name)]
           /\ Prefixes(pathReq.rel) \subseteq outDirs
    /\ (pthpc = "raised") =>
           /\ FollowsStructure
           /\ ~pathReq.writable
           /\ ~(Prefixes(pathReq.rel) \subseteq pathReq.existing)

\* C16 witness: for sub/a.mp4, the default format and no suffix, sub/a.mp4.jpg
\* is returned and sub, which was not there, is.
C16_SubDirectoryCreated ==
    /\ pthpc = "returned"
    /\ pathReq.follow
    /\ pathReq.rel = << "sub" >>
    /\ pathReq.name = << "a", "mp4" >>
    /\ pathReq.format = "JPG"
    /\ pathReq.suffix = ""
    /\ pathReq.existing = {}
    /\ outPath = [dir |-> << "sub" >>,
                  file |-> << << "a", "" >>, << "mp4", "" >>, << "jpg", "" >> >>]
    /\ << "sub" >> \in outDirs

\* C22: the two videos of a batch, which differ in their directory or in
\* their name, get different output paths, with follow_structure and
\* without it.
C22_DistinctOutputPaths ==
    (pthpc = "both") => otherPath # outPath

\* ----------------------------------------------- cache: _file_size_cache

CacheInit ==
    /\ SamplerIdle
    /\ BatchIdle
    /\ GridIdle
    /\ ProbeIdle
    /\ OsIdle
    /\ PathIdle
    /\ ConfigIdle
    /\ cache = [p \in CachePaths |-> 0]
    /\ disk \in [CachePaths -> 1 .. MaxSize]
    /\ cw = [w \in CacheWorkers |-> [pc |-> "idle", path |-> "p", file_size |-> 0]]

\* A thread calls get_video_metadata(video_path, file_size), file_size being
\* None (0) or a size (line 217).
CallGetVideoMetadata(w) ==
    /\ cw[w].pc = "idle"
    /\ \E p \in CachePaths, size \in 0 .. MaxSize :
         cw' = [cw EXCEPT ![w] = [pc |-> "probe", path |-> p, file_size |-> size]]
    /\ UNCHANGED << cache, disk >>
    /\ UNCHANGED notCache

\* A thread calls extract_screenshots without the duration, the fps or the
\* resolution and get_metadata_ffprobe returns nothing (lines 703-709):
\* get_video_metadata is called with _file_size_cache.get(video_path).
CallExtractScreenshots(w) ==
    /\ cw[w].pc = "idle"
    /\ \E p \in CachePaths :
         cw' = [cw EXCEPT ![w] = [pc |-> "probe", path |-> p,
                                  file_size |-> cache[p]]]
    /\ UNCHANGED << cache, disk >>
    /\ UNCHANGED notCache

\* get_video_metadata, lines 237-248 and 271: without metadata from ffprobe
\* None is returned; with it, the cache is looked up if file_size is None
\* and written otherwise.
CacheProbe(w) ==
    /\ cw[w].pc = "probe"
    /\ \E ffprobe_metadata \in BOOLEAN :
         cw' = [cw EXCEPT ![w].pc =
                   IF ~ffprobe_metadata THEN "idle"
                   ELSE IF cw[w].file_size = 0 THEN "check" ELSE "store"]
    /\ UNCHANGED << cache, disk >>
    /\ UNCHANGED notCache

\* Lines 249-250: "if video_path in _file_size_cache", and the entry read.
CacheCheck(w) ==
    /\ cw[w].pc = "check"
    /\ cw' = [cw EXCEPT ![w] =
                 IF cache[cw[w].path] # 0
                 THEN [pc |-> "idle", path |-> cw[w].path,
                       file_size |-> cache[cw[w].path]]
                 ELSE [pc |-> "getsize", path |-> cw[w].path, file_size |-> 0]]
    /\ UNCHANGED << cache, disk >>
    /\ UNCHANGED notCache

\* Line 253: file_size = os.path.getsize(video_path).
CacheGetSize(w) ==
    /\ cw[w].pc = "getsize"
    /\ cw' = [cw EXCEPT ![w] = [pc |-> "store", path |-> cw[w].path,
                                file_size |-> disk[cw[w].path]]]
    /\ UNCHANGED << cache, disk >>
    /\ UNCHANGED notCache

\* Lines 254 and 257: _file_size_cache[video_path] = file_size, and the
\* return of the metadata.
CacheStore(w) ==
    /\ cw[w].pc = "store"
    /\ cache' = [cache EXCEPT ![cw[w].path] = cw[w].file_size]
    /\ cw' = [cw EXCEPT ![w].pc = "idle"]
    /\ UNCHANGED disk
    /\ UNCHANGED notCache

\* The video file is replaced by one of another size.
FileChanges ==
    /\ \E p \in CachePaths, size \in 1 .. MaxSize :
         /\ size # disk[p]
         /\ disk' = [disk EXCEPT ![p] = size]
    /\ UNCHANGED << cache, cw >>
    /\ UNCHANGED notCache

CacheNext ==
    \/ \E w \in CacheWorkers : CallGetVideoMetadata(w)
    \/ \E w \in CacheWorkers : CallExtractScreenshots(w)
    \/ \E w \in CacheWorkers : CacheProbe(w)
    \/ \E w \in CacheWorkers : CacheCheck(w)
    \/ \E w \in CacheWorkers : CacheGetSize(w)
    \/ \E w \in CacheWorkers : CacheStore(w)
    \/ FileChanges

SpecCache == CacheInit /\ [][CacheNext]_vars

\* C23: an entry of the cache, once there, is never changed and never
\* removed by a step of any thread, whether its call was given a file_size
\* or not.
C23_CacheWriteOnce ==
    [][\A p \in CachePaths : cache[p] # 0 => cache'[p] = cache[p]]_vars

\* ------------------------------------------- config: ProcessingConfig

\* A faulty variant of the validation: the quality is not checked.
PostInitWithoutQuality(c) ==
    /\ ~(c.rows < 1 \/ c.columns < 1)
    /\ ~(c.width < 1 \/ c.height < 1)

\* ProcessingConfig.__post_init__, config.py lines 28-35: whether no
\* ValueError is raised.
PostInitPasses(c) ==
    /\ ~(c.rows < 1 \/ c.columns < 1)
    /\ ~(~(1 <= c.quality /\ c.quality <= 100))
    /\ ~(c.width < 1 \/ c.height < 1)

\* ProcessingConfig(...): the object, or the ValueError of __post_init__.
Construct(c) ==
    IF PostInitPasses(c)
    THEN [ok |-> TRUE, rows |-> c.rows, columns |-> c.columns,
          width |-> c.width, height |-> c.height, quality |-> c.quality]
    ELSE NoConfig

\* get_int of get_config, main.py lines 549-554: an entry that is no integer
\* or not positive gives the default.
GetInt(entry, isInteger, default, min_val) ==
    IF ~isInteger THEN default
    ELSE IF entry > 0 THEN Max(min_val, entry) ELSE default

\* Lines 563-568: the quality of the slider, 75 if it is no integer from 1 to
\* 100.
GetQuality(entry, isInteger) ==
    IF ~isInteger THEN 75
    ELSE IF entry < 1 \/ entry > 100 THEN 75 ELSE entry

\* get_config, lines 557-582: the arguments ProcessingConfig is given; ui.nan
\* are the fields of the window that hold no integer.
GetConfigArgs(ui) ==
    [rows |-> GetInt(ui.rows, "rows" \notin ui.nan, 5, 1),
     columns |-> GetInt(ui.columns, "columns" \notin ui.nan, 6, 1),
     width |-> GetInt(ui.width, "width" \notin ui.nan, 320, 1),
     height |-> GetInt(ui.height, "height" \notin ui.nan, 240, 1),
     quality |-> GetQuality(ui.quality, "quality" \notin ui.nan)]

\* What is passed to the constructor, or typed in the window: numbers around
\* the limits.
FieldValues == {-1, 0, 1, 2}

QualityValues == {0, 1, 100, 101}

ConfigRequests ==
    [ entry : {"ProcessingConfig"},
      rows : FieldValues, columns : FieldValues,
      width : FieldValues, height : FieldValues,
      quality : QualityValues,
      nan : { {} } ]
        \cup
    [ entry : {"start_processing"},
      rows : {0, 2}, columns : {0, 2},
      width : {0, 2}, height : {0, 2},
      quality : {0, 50},
      nan : { {}, {"rows"}, {"quality"},
              {"rows", "columns", "width", "height", "quality"} } ]

ConfigInit ==
    /\ CacheIdle
    /\ SamplerIdle
    /\ BatchIdle
    /\ GridIdle
    /\ ProbeIdle
    /\ OsIdle
    /\ PathIdle
    /\ cfgpc = "call"
    /\ cfgReq \in ConfigRequests
    /\ cfgResult = NoConfig
    /\ cfgThread = "none"

\* A direct construction: ProcessingConfig(rows=..., ...).
ConstructConfig ==
    /\ cfgpc = "call"
    /\ cfgReq.entry = "ProcessingConfig"
    /\ cfgResult' = Construct(cfgReq)
    /\ cfgpc' = "done"
    /\ UNCHANGED << cfgReq, cfgThread >>
    /\ UNCHANGED notConfig

\* start_processing, main.py lines 651-676: get_config, the ValueError of
\* which ends the handler with a status message, and the start of the
\* processing thread otherwise.
StartProcessingConfig ==
    /\ cfgpc = "call"
    /\ cfgReq.entry = "start_processing"
    /\ LET config == Construct(GetConfigArgs(cfgReq))
       IN  /\ cfgResult' = config
           /\ cfgThread' = IF config.ok THEN "started" ELSE "none"
    /\ cfgpc' = "done"
    /\ UNCHANGED cfgReq
    /\ UNCHANGED notConfig

ConfigNext == ConstructConfig \/ StartProcessingConfig

SpecConfig == ConfigInit /\ [][ConfigNext]_vars

\* --------------------------------------------------------- config: claims

InvalidArgs(c) ==
    \/ c.rows < 1
    \/ c.columns < 1
    \/ c.width < 1
    \/ c.height < 1
    \/ c.quality < 1
    \/ c.quality > 100

\* C19: a construction with rows, columns, width or height below 1, or a
\* quality outside 1..100, gives the ValueError and no config, and any other
\* construction gives the config of its arguments; start_processing starts
\* its thread only with a config that was constructed, and not at all when
\* the construction failed.
C19_InvalidConfigFailsFast ==
    (cfgpc = "done") =>
        /\ (cfgReq.entry = "ProcessingConfig") =>
               /\ InvalidArgs(cfgReq) <=> ~cfgResult.ok
               /\ cfgResult.ok =>
                      /\ cfgResult.rows = cfgReq.rows
                      /\ cfgResult.columns = cfgReq.columns
                      /\ cfgResult.width = cfgReq.width
                      /\ cfgResult.height = cfgReq.height
                      /\ cfgResult.quality = cfgReq.quality
               /\ cfgThread = "none"
        /\ (cfgReq.entry = "start_processing") =>
               /\ (cfgThread = "started") <=> cfgResult.ok
               /\ cfgResult.ok => ~InvalidArgs(cfgResult)

\* C19 witness: the construction with a quality of 101, everything else
\* valid, failed.
C19_QualityTooHigh ==
    /\ cfgpc = "done"
    /\ cfgReq.entry = "ProcessingConfig"
    /\ cfgReq.rows = 2
    /\ cfgReq.columns = 2
    /\ cfgReq.width = 1
    /\ cfgReq.height = 1
    /\ cfgReq.quality = 101
    /\ ~cfgResult.ok


\* ------------------------------------------------- grid: the caller's list

\* C30: create_grid leaves the sequence of samples it was given as the caller
\* passed it, with the same length and the same elements, also when the
\* sequence had to be padded or truncated to rows * columns cells.
C30_CallerSamplesUnchanged == (gpc = "returned") => images = given

\* The part that holds: a sequence that already has at least rows * columns
\* samples is only sliced into a new list (line 183) and stays as it was.
C30_UnchangedWhenNotPadded ==
    (gpc = "returned" /\ Len(given) >= gconfig.rows * gconfig.columns)
        => images = given

\* A call that had to truncate has returned.
C30_TruncatedCall ==
    /\ gpc = "returned"
    /\ Len(given) > gconfig.rows * gconfig.columns
    /\ Len(grid.cells) < Len(given)

=============================================================================
